---------------------------- MODULE Spec2Model ----------------------------
(***************************************************************************)
(* Model of the SC16IS7XX driver (src/SC16IS7XX.c): the register access    *)
(* layer with its scoped LCR register-set switch, the UART initialization  *)
(* sequence, and the buffered transmit/receive engine, run against a       *)
(* register-level model of the bridge chip.                                *)
(*                                                                         *)
(* Driver functions are operators from a "world" record to a world record. *)
(* The world holds the chip (dev), the SC16IS7XX_UART objects (uart), the   *)
(* transport call log, the outcome of the last call (err, val) and the     *)
(* inputs that are not under the driver's control: which transport calls   *)
(* fail and what an uninitialized C object happens to hold.                *)
(***************************************************************************)
EXTENDS Integers, Sequences, FiniteSets, TLC

\* ------------------------------------------------------------------ bounds
MaxFifo == 2
MaxBuf == 3
MaxMsg == 5
MaxOps == 2

\* ------------------------------------------------------- eERRORRESULT codes
ERR_OK == "ERR_OK"
ERR__CONFIGURATION == "ERR__CONFIGURATION"
ERR__UNKNOWN_ELEMENT == "ERR__UNKNOWN_ELEMENT"
ERR__NOT_SUPPORTED == "ERR__NOT_SUPPORTED"
ERR__NOT_IN_SLEEP_MODE == "ERR__NOT_IN_SLEEP_MODE"
ERR__FREQUENCY_ERROR == "ERR__FREQUENCY_ERROR"
ERR__BAUDRATE_ERROR == "ERR__BAUDRATE_ERROR"
ERR__PERIPHERAL_NOT_VALID == "ERR__PERIPHERAL_NOT_VALID"
ERR__RECEIVE_ERROR == "ERR__RECEIVE_ERROR"
ERR__SPI_TIMEOUT == "ERR__SPI_TIMEOUT"
ERR__BUSY == "ERR__BUSY"
ERR__SPI_BUSY == "ERR__SPI_BUSY"
ERR__I2C_BUSY == "ERR__I2C_BUSY"
ERR__I2C_NACK == "ERR__I2C_NACK"
ERR__I2C_NACK_DATA == "ERR__I2C_NACK_DATA"
ERR__I2C_INVALID_ADDRESS == "ERR__I2C_INVALID_ADDRESS"
ERR__I2C_CONFIG_ERROR == "ERR__I2C_CONFIG_ERROR"
ERR__SPI_CONFIG_ERROR == "ERR__SPI_CONFIG_ERROR"
ERR__NOT_READY == "ERR__NOT_READY"
ERR__BAD_DATA == "ERR__BAD_DATA"
ERR__NO_DEVICE_DETECTED == "ERR__NO_DEVICE_DETECTED"
ERR__UNKNOWN_DEVICE == "ERR__UNKNOWN_DEVICE"

\* A call that polls the chip forever, or that the processor stops at a
\* fault, does not return: err = NO_RETURN.
NO_RETURN == "NO_RETURN"

\* The null pointer
NULL == "NULL"

\* ------------------------------------------------------- C byte arithmetic
Bit(v, i) == (v \div (2 ^ i)) % 2

BitAnd(a, b) ==
  Bit(a, 0) * Bit(b, 0) + 2 * Bit(a, 1) * Bit(b, 1) + 4 * Bit(a, 2) * Bit(b, 2)
  + 8 * Bit(a, 3) * Bit(b, 3) + 16 * Bit(a, 4) * Bit(b, 4) + 32 * Bit(a, 5) * Bit(b, 5)
  + 64 * Bit(a, 6) * Bit(b, 6) + 128 * Bit(a, 7) * Bit(b, 7)

BitOr(a, b) == a + b - BitAnd(a, b)

BitNot(a) == 255 - (a % 256)

Min(a, b) == IF a < b THEN a ELSE b

\* A C block with a local variable: Local([x \in {e} |-> block]) is the value
\* of block where x holds the value of e, computed once.
Local(f) == CHOOSE r \in {g[CHOOSE x \in DOMAIN g : TRUE] : g \in {f}} : TRUE

\* ------------------------------------------------ eSC16IS7XX_Registers (.h)
RegSC16IS7XX_RHR == 0
RegSC16IS7XX_THR == 0
RegSC16IS7XX_IER == 1
RegSC16IS7XX_IIR == 2
RegSC16IS7XX_FCR == 2
RegSC16IS7XX_LCR == 3
RegSC16IS7XX_MCR == 4
RegSC16IS7XX_LSR == 5
RegSC16IS7XX_MSR == 6
RegSC16IS7XX_SPR == 7
RegSC16IS7XX_TCR == 6
RegSC16IS7XX_TLR == 7
RegSC16IS7XX_TXLVL == 8
RegSC16IS7XX_RXLVL == 9
RegSC16IS7XX_IODir == 10
RegSC16IS7XX_IOState == 11
RegSC16IS7XX_IOIntEna == 12
RegSC16IS7XX_IOControl == 14
RegSC16IS7XX_EFCR == 15
RegSC16IS7XX_DLL == 0
RegSC16IS7XX_DLH == 1
RegSC16IS7XX_EFR == 2
RegSC16IS7XX_XON1 == 4
RegSC16IS7XX_XON2 == 5
RegSC16IS7XX_XOFF1 == 6
RegSC16IS7XX_XOFF2 == 7

\* eSC16IS7XX_AccessTo
SC16IS7XX_LCR_VALUE_SET_SPECIAL_REGISTER == 128
SC16IS7XX_LCR_VALUE_SET_ENHANCED_FEATURE_REGISTER == 191
SC16IS7XX_LCR_VALUE_SET_GENERAL_REGISTER == 127

\* eSC16IS7XX_Channel
SC16IS7XX_NO_CHANNEL == 0
SC16IS7XX_CHANNEL_A == 0
SC16IS7XX_CHANNEL_B == 1
SC16IS7XX_CHANNEL_COUNT == 2

SC16IS7XX_INTERFACE_SPI == "SPI"
SC16IS7XX_INTERFACE_I2C == "I2C"

\* eSC16IS7XX_PN
SC16IS740 == 0
SC16IS750 == 2
SC16IS752 == 3
SC16IS7XX_PN_COUNT == 6

SC16IS7XX_I2C_CLOCK_MAX == 400000
SC16IS7XX_SPI_CLOCK_MAX == 4000000

Channels == {SC16IS7XX_CHANNEL_A, SC16IS7XX_CHANNEL_B}

\* ------------------------------------------------------------ the chip
\* Registers the chip stores per channel; the four I/O registers are shared
\* by both channels and are kept with channel A.
StoredRegs ==
  {"IER", "FCR", "LCR", "MCR", "SPR", "TCR", "TLR", "EFCR", "DLL", "DLH", "EFR",
   "XON1", "XON2", "XOFF1", "XOFF2", "IODir", "IOState", "IOIntEna", "IOControl"}

SharedRegs == {"IODir", "IOState", "IOIntEna", "IOControl"}

StoreCh(reg, channel) == IF reg \in SharedRegs THEN SC16IS7XX_CHANNEL_A ELSE channel

\* Which register an address reaches: the register set is selected by LCR,
\* TCR/TLR replace MSR/SPR while MCR[2] = 1 and EFR[4] = 1.
RegisterAt(address, isRead, lcr, mcr, efr) ==
  LET enhanced == (lcr = SC16IS7XX_LCR_VALUE_SET_ENHANCED_FEATURE_REGISTER)
      special == (Bit(lcr, 7) = 1) /\ ~enhanced
      tcrtlr == (Bit(mcr, 2) = 1) /\ (Bit(efr, 4) = 1)
  IN CASE address = 0 -> IF special THEN "DLL" ELSE IF isRead THEN "RHR" ELSE "THR"
       [] address = 1 -> IF special THEN "DLH" ELSE "IER"
       [] address = 2 -> IF enhanced THEN "EFR" ELSE IF isRead THEN "IIR" ELSE "FCR"
       [] address = 3 -> "LCR"
       [] address = 4 -> IF enhanced THEN "XON1" ELSE "MCR"
       [] address = 5 -> IF enhanced THEN "XON2" ELSE "LSR"
       [] address = 6 -> IF enhanced THEN "XOFF1" ELSE IF tcrtlr THEN "TCR" ELSE "MSR"
       [] address = 7 -> IF enhanced THEN "XOFF2" ELSE IF tcrtlr THEN "TLR" ELSE "SPR"
       [] address = 8 -> "TXLVL"
       [] address = 9 -> "RXLVL"
       [] address = 10 -> "IODir"
       [] address = 11 -> "IOState"
       [] address = 12 -> "IOIntEna"
       [] address = 14 -> "IOControl"
       [] address = 15 -> "EFCR"
       [] OTHER -> "Reserved"

DevRegisterAt(dev, channel, address, isRead) ==
  RegisterAt(address, isRead, dev.reg[channel]["LCR"], dev.reg[channel]["MCR"],
             dev.reg[channel]["EFR"])

\* The first n bytes of a FIFO, padded with 0 when it holds fewer.
FifoHead(fifo, n) == [i \in 1..n |-> IF i <= Len(fifo) THEN fifo[i] ELSE 0]

FifoTail(fifo, n) == IF n >= Len(fifo) THEN <<>> ELSE SubSeq(fifo, n + 1, Len(fifo))

\* A character of the Rx FIFO is held with its line status: the character
\* plus 256 times its parity (4), framing (8) and break (16) error bits.
RxChar(c) == c % 256

RxCharError(c) == BitAnd(c \div 256, 28)

\* LSR: data in Rx FIFO (bit 0), overrun (bit 1, cleared by the read), the
\* errors of the character at the top of the Rx FIFO (bits 2 to 4), THR
\* empty and THR and TSR empty (bits 5 and 6), an error in the Rx FIFO (bit 7).
DevLSR(dev, channel) ==
  (IF Len(dev.rxFifo[channel]) > 0 THEN 1 + RxCharError(dev.rxFifo[channel][1]) ELSE 0)
  + (IF dev.overrun[channel] THEN 2 ELSE 0)
  + (IF Len(dev.txFifo[channel]) = 0 THEN 96 ELSE 0)
  + (IF \E i \in 1..Len(dev.rxFifo[channel]) : RxCharError(dev.rxFifo[channel][i]) # 0
       THEN 128 ELSE 0)

\* What a read of size bytes at a register returns.
DevReadValue(dev, channel, reg, size) ==
  CASE reg = "RHR" -> [i \in 1..size |-> RxChar(FifoHead(dev.rxFifo[channel], size)[i])]
    [] reg = "TXLVL" -> [i \in 1..size |-> MaxFifo - Len(dev.txFifo[channel])]
    [] reg = "RXLVL" -> [i \in 1..size |-> Len(dev.rxFifo[channel])]
    [] reg = "IIR" -> [i \in 1..size |-> 1 + 192 * Bit(dev.reg[channel]["FCR"], 0)]
    [] reg = "LSR" -> [i \in 1..size |-> DevLSR(dev, channel)]
    [] reg \in {"MSR", "Reserved"} -> [i \in 1..size |-> 0]
    [] OTHER -> [i \in 1..size |-> dev.reg[StoreCh(reg, channel)][reg]]

DevAfterRead(dev, channel, reg, size) ==
  IF reg = "RHR"
    THEN [dev EXCEPT !.rxFifo[channel] = FifoTail(@, size)]
    ELSE IF reg = "LSR" THEN [dev EXCEPT !.overrun[channel] = FALSE]
    ELSE dev

\* IER[7:4] and MCR[7:5] can be modified only while EFR[4] = 1.
DevStoredByte(dev, channel, reg, value) ==
  LET old == dev.reg[StoreCh(reg, channel)][reg]
      enh == Bit(dev.reg[channel]["EFR"], 4) = 1
  IN CASE reg = "IER" /\ ~enh -> BitOr(BitAnd(old, 240), BitAnd(value, 15))
       [] reg = "MCR" /\ ~enh -> BitOr(BitAnd(old, 224), BitAnd(value, 31))
       [] reg = "FCR" -> BitAnd(value, 1)
       [] OTHER -> value

\* The chip after reset.
ResetRegisters ==
  [r \in StoredRegs |-> IF r = "LCR" THEN 29 ELSE 0]

ResetDevice ==
  [reg |-> [c \in Channels |-> ResetRegisters],
   txFifo |-> [c \in Channels |-> <<>>],
   rxFifo |-> [c \in Channels |-> <<>>],
   overrun |-> [c \in Channels |-> FALSE]]

SC16IS7XX_IOCTRL_SOFTWARE_RESET == 8

\* The chip after data (a sequence of bytes) is written at a register; a
\* write of the software reset bit of IOControl resets the chip, and the bit
\* is read back as 0.
DevAfterWrite(dev, channel, reg, data) ==
  CASE reg = "IOControl"
         /\ BitAnd(data[Len(data)], SC16IS7XX_IOCTRL_SOFTWARE_RESET) > 0 -> ResetDevice
    [] reg = "THR" ->
         [dev EXCEPT !.txFifo[channel] =
            @ \o SubSeq(data, 1, Min(Len(data), MaxFifo - Len(@)))]
    [] reg = "FCR" ->
         [dev EXCEPT !.reg[channel]["FCR"] = DevStoredByte(dev, channel, reg, data[Len(data)]),
                     !.rxFifo[channel] = IF Bit(data[Len(data)], 1) = 1 THEN <<>> ELSE @,
                     !.txFifo[channel] = IF Bit(data[Len(data)], 2) = 1 THEN <<>> ELSE @]
    [] reg \in StoredRegs \ {"FCR"} ->
         [dev EXCEPT !.reg[StoreCh(reg, channel)][reg] =
            DevStoredByte(dev, channel, reg, data[Len(data)])]
    [] OTHER -> dev

\* ------------------------------------------------------ transport call log
LogEntry(w, op, channel, address, reg, data, ok) ==
  [op |-> op, ch |-> channel, addr |-> address, reg |-> reg, val |-> data,
   ok |-> ok, step |-> w.step,
   lcr |-> w.dev.reg[channel]["LCR"], mcr |-> w.dev.reg[channel]["MCR"],
   efr |-> w.dev.reg[channel]["EFR"]]

\* =========================================================================
\* Register access layer
\* =========================================================================
\* A transport call fails when its index (counted per driver call) is in
\* w.fail; a failed read leaves the caller's data as it was.  A transport
\* call makes two transfers, the address and then the data: w.fphase is the
\* transfer that fails and w.ferr the error the interface gives for it.
\*
\* On I2C the address transfer of a read reports ERR__I2C_NACK as
\* ERR__NOT_READY; every other error of either transfer is returned as it is.
I2CReadError(error, phase) ==
  IF phase = 1 /\ error = ERR__I2C_NACK THEN ERR__NOT_READY ELSE error

\* A write that reports the errors of its data transfer as it reports those of
\* its address transfer.
I2CWriteErrorOfBothTransfers(error, phase) ==
  IF error = ERR__I2C_NACK THEN ERR__NOT_READY
  ELSE IF error = ERR__I2C_NACK_DATA THEN ERR__I2C_INVALID_ADDRESS
  ELSE error

\* On I2C the address transfer of a write reports ERR__I2C_NACK as
\* ERR__NOT_READY and ERR__I2C_NACK_DATA as ERR__I2C_INVALID_ADDRESS; every
\* error of the data transfer is returned as it is.
I2CWriteError(error, phase) ==
  IF phase = 1 /\ error = ERR__I2C_NACK THEN ERR__NOT_READY
  ELSE IF phase = 1 /\ error = ERR__I2C_NACK_DATA THEN ERR__I2C_INVALID_ADDRESS
  ELSE error

\* On the I2C bus the chip resets at the write of the software reset bit and
\* does not acknowledge the byte written.
ResetIsNacked(w, reg, data) ==
  /\ w.comp.Interface = SC16IS7XX_INTERFACE_I2C
  /\ w.fphase = 2 /\ w.ferr = ERR__I2C_NACK_DATA
  /\ reg = "IOControl" /\ BitAnd(data[Len(data)], SC16IS7XX_IOCTRL_SOFTWARE_RESET) > 0

__SC16IS7XX_ReadData(w, channel, address, size) ==
  IF size = 0 THEN [w EXCEPT !.err = ERR_OK]
  ELSE
    LET n == w.ncall + 1
        reg == DevRegisterAt(w.dev, channel, address, TRUE)
        data == IF w.miso >= 0 THEN [i \in 1..size |-> w.miso]
                ELSE DevReadValue(w.dev, channel, reg, size)
    IN IF n \in w.fail
         THEN [w EXCEPT !.ncall = n,
                        !.err = IF w.comp.Interface = SC16IS7XX_INTERFACE_I2C
                                  THEN I2CReadError(w.ferr, w.fphase) ELSE w.ferr,
                        !.val = [i \in 1..size |-> w.garb],
                        !.log = Append(@, LogEntry(w, "R", channel, address, reg, <<>>, FALSE))]
         ELSE [w EXCEPT !.ncall = n, !.err = ERR_OK, !.val = data,
                        !.dev = DevAfterRead(w.dev, channel, reg, size),
                        !.log = Append(@, LogEntry(w, "R", channel, address, reg, data, TRUE))]

SC16IS7XX_ReadRegister(w, channel, registerAddr) ==
  __SC16IS7XX_ReadData(w, channel, registerAddr, 1)

__SC16IS7XX_WriteData(w, channel, address, data) ==
  IF Len(data) = 0 THEN [w EXCEPT !.err = ERR_OK]
  ELSE
    LET n == w.ncall + 1
        reg == DevRegisterAt(w.dev, channel, address, FALSE)
    IN IF n \in w.fail
         THEN [w EXCEPT !.ncall = n,
                        !.err = IF w.comp.Interface = SC16IS7XX_INTERFACE_I2C
                                  THEN I2CWriteError(w.ferr, w.fphase) ELSE w.ferr,
                        !.dev = IF ResetIsNacked(w, reg, data)
                                  THEN DevAfterWrite(w.dev, channel, reg, data) ELSE @,
                        !.log = Append(@, LogEntry(w, "W", channel, address, reg, data, FALSE))]
         ELSE [w EXCEPT !.ncall = n, !.err = ERR_OK,
                        !.dev = DevAfterWrite(w.dev, channel, reg, data),
                        !.log = Append(@, LogEntry(w, "W", channel, address, reg, data, TRUE))]

SC16IS7XX_WriteRegister(w, channel, registerAddr, registerValue) ==
  __SC16IS7XX_WriteData(w, channel, registerAddr, <<registerValue>>)

\* A modification that writes the new bits and clears all the others.
ValueWithoutOldBits(RegValue, registerValue, registerMask) ==
  BitAnd(registerValue, registerMask)

\* "Clear bits to modify", "Set the new value"
ModifiedValue(RegValue, registerValue, registerMask) ==
  BitOr(BitAnd(RegValue, BitNot(registerMask)), BitAnd(registerValue, registerMask))

SC16IS7XX_ModifyRegister(w, channel, registerAddr, registerValue, registerMask) ==
  Local([w1 \in {SC16IS7XX_ReadRegister(w, channel, registerAddr)} |->
    IF w1.err # ERR_OK THEN w1
    ELSE SC16IS7XX_WriteRegister(w1, channel, registerAddr,
           ModifiedValue(w1.val[1], registerValue, registerMask))])

\* The two halves of the scoped register-set switch leave a marker in the
\* log: "SetAccess" holds the LCR value of the chip before the switch and
\* whether the switch was made, "ReturnAccess" the LCR value after the return.
SC16IS7XX_SetRegisterAccess(w, channel, setAccessTo) ==
  Local([w2 \in {Local([w1 \in {SC16IS7XX_ReadRegister(w, channel, RegSC16IS7XX_LCR)} |->
                   IF w1.err # ERR_OK THEN w1
                   ELSE SC16IS7XX_WriteRegister(w1, channel, RegSC16IS7XX_LCR, setAccessTo)])} |->
    [w2 EXCEPT !.log = Append(@, LogEntry(w2, "SetAccess", channel, RegSC16IS7XX_LCR, "LCR",
                                          <<w.dev.reg[channel]["LCR"]>>, w2.err = ERR_OK))]])

\* A return that writes the general register set selector instead of the
\* saved LCR value.
ReturnAccessWritingSelector(w, channel, originalLCRregValue) ==
  Local([w1 \in {SC16IS7XX_WriteRegister(w, channel, RegSC16IS7XX_LCR,
                                         SC16IS7XX_LCR_VALUE_SET_GENERAL_REGISTER)} |->
    [w1 EXCEPT !.log = Append(@, LogEntry(w1, "ReturnAccess", channel, RegSC16IS7XX_LCR,
                                          "LCR", <<w1.dev.reg[channel]["LCR"]>>, w1.err = ERR_OK))]])

SC16IS7XX_ReturnAccessToGeneralRegister(w, channel, originalLCRregValue) ==
  Local([w1 \in {SC16IS7XX_WriteRegister(w, channel, RegSC16IS7XX_LCR,
                   BitAnd(originalLCRregValue, SC16IS7XX_LCR_VALUE_SET_GENERAL_REGISTER))} |->
    [w1 EXCEPT !.log = Append(@, LogEntry(w1, "ReturnAccess", channel, RegSC16IS7XX_LCR,
                                          "LCR", <<w1.dev.reg[channel]["LCR"]>>, w1.err = ERR_OK))]])

\* =========================================================================
\* Enhanced functions
\* =========================================================================
SC16IS7XX_EnableEnhancedFunctions(w, channel) ==
  Local([w1 \in {SC16IS7XX_SetRegisterAccess(w, channel,
                   SC16IS7XX_LCR_VALUE_SET_ENHANCED_FEATURE_REGISTER)} |->
    IF w1.err # ERR_OK THEN w1
    ELSE Local([w2 \in {SC16IS7XX_ModifyRegister(w1, channel, RegSC16IS7XX_EFR, 16, 16)} |->
      IF w2.err # ERR_OK THEN w2
      ELSE SC16IS7XX_ReturnAccessToGeneralRegister(w2, channel, w1.val[1])])])

Ret(w, error) == [w EXCEPT !.err = error]

AtStep(w, name) == [w EXCEPT !.step = name]

\* A sleep mode test that reads IER and always answers "not in sleep mode".
NeverInSleepMode(w) ==
  [SC16IS7XX_ReadRegister(w, SC16IS7XX_NO_CHANNEL, RegSC16IS7XX_IER) EXCEPT !.flag = FALSE]

SC16IS7XX_IsDeviceInSleepMode(w) ==
  Local([w1 \in {SC16IS7XX_ReadRegister(w, SC16IS7XX_NO_CHANNEL, RegSC16IS7XX_IER)} |->
    IF w1.err # ERR_OK THEN [w1 EXCEPT !.flag = FALSE]
    ELSE [w1 EXCEPT !.flag = (BitAnd(w1.val[1], 16) > 0)]])

\* =========================================================================
\* Steps of the UART initialization
\* =========================================================================
\* A transmitter/receiver control that leaves EFCR alone.
TxRxDisableOmitted(w, u, disableTx, disableRx) == Ret(w, ERR_OK)

SC16IS7XX_TxRxDisable(w, u, disableTx, disableRx) ==
  LET RegEFCR == (IF disableTx THEN 4 ELSE 0) + (IF disableRx THEN 2 ELSE 0)
  IN SC16IS7XX_ModifyRegister(w, w.uart[u].Channel, RegSC16IS7XX_EFCR, RegEFCR, 6)

SC16IS7XX_ResetFIFO(w, u, resetTxFIFO, resetRxFIFO) ==
  Local([w1 \in {SC16IS7XX_ReadRegister(w, w.uart[u].Channel, RegSC16IS7XX_IIR)} |->
    IF w1.err # ERR_OK THEN w1
    ELSE SC16IS7XX_WriteRegister(w1, w.uart[u].Channel, RegSC16IS7XX_FCR,
           (IF BitAnd(w1.val[1], 192) > 0 THEN 1 ELSE 0)
           + (IF resetRxFIFO THEN 2 ELSE 0) + (IF resetTxFIFO THEN 4 ELSE 0))])

SC16IS7XX_ConfigureInterrupt(w, u, interruptsFlags) ==
  SC16IS7XX_WriteRegister(w, w.uart[u].Channel, RegSC16IS7XX_IER, BitAnd(interruptsFlags, 239))

__SC16IS7XX_ConfigureFIFOs(w, u, useFIFOs, txTrigLvl, rxTrigLvl) ==
  Local([w1 \in {SC16IS7XX_WriteRegister(w, w.uart[u].Channel, RegSC16IS7XX_FCR,
                                         IF useFIFOs THEN 1 ELSE 0)} |->
    IF w1.err # ERR_OK THEN w1
    ELSE SC16IS7XX_WriteRegister(w1, w.uart[u].Channel, RegSC16IS7XX_TLR,
           BitOr(BitAnd(txTrigLvl, 15), BitAnd((rxTrigLvl * 16) % 256, 240)))])

\* The line format byte written to LCR: word length in bits 1..0, the stop
\* bit in bit 2, the parity in bits 5..3, no break, divisor latch disabled.
LineFormatLCR(conf) ==
  BitOr(BitOr(BitAnd(conf.UARTwordLen, 3), IF conf.UARTstopBit # 0 THEN 4 ELSE 0),
        BitAnd((conf.UARTparity * 8) % 256, 56))

\* Error is not initialized at its declaration: unless the RS-485 automatic
\* address detection assigned it, the three tests that follow the discarded
\* register modifications read whatever the object holds (w.garbErr).
SC16IS7XX_IOCTRL_UARTA_MODEM_MODE_Mask == 2
SC16IS7XX_IOCTRL_UARTB_MODEM_MODE_Mask == 4

\* "Select the IO control mask"
IOControlMask(channel) ==
  IF channel = SC16IS7XX_CHANNEL_A THEN SC16IS7XX_IOCTRL_UARTA_MODEM_MODE_Mask
  ELSE SC16IS7XX_IOCTRL_UARTB_MODEM_MODE_Mask

\* RegIOC.IOControl: the pins of the channel as modem pins for a modem, as
\* I/O pins otherwise
IOControlValue(UARTtype, channel) ==
  IF UARTtype = "Modem" THEN IOControlMask(channel) ELSE 0

__SC16IS7XX_SetUARTConfiguration(w, u, conf) ==
  LET channel == w.uart[u].Channel
      RegIOCmask == IOControlMask(channel)
      rs485 == conf.UARTtype = "RS485"
      autoAddr == rs485 /\ conf.RS485.AutoRS485mode = "AUTO_ADDRESS_DETECT"
      RegMCR == IF conf.UARTtype = "IrDA" THEN 64 ELSE 0
      RegEFCR ==
        CASE conf.UARTtype = "RS485" ->
               (IF conf.RS485.RTScontrol = "AUTO_RTS" THEN 16 ELSE 0)
               + (IF conf.RS485.RTSoutInversion THEN 32 ELSE 0)
               + (IF conf.RS485.AutoRS485mode # "NO_AUTO_RS485_MODE" THEN 1 ELSE 0)
          [] conf.UARTtype = "IrDA" -> IF conf.IrDA.IrDAmode = "SIR_1_4_RATIO" THEN 128 ELSE 0
          [] OTHER -> 0
      RegIOC == IOControlValue(conf.UARTtype, channel)
  IN CASE channel \notin Channels -> Ret(w, ERR__UNKNOWN_ELEMENT)
       [] conf.UARTtype \notin {"RS232", "RS485", "IrDA", "Modem"} -> Ret(w, ERR__UNKNOWN_ELEMENT)
       [] rs485 /\ conf.RS485.RTScontrol = "AUTO_RTS" /\ conf.RS485.UseHardwareControlFlow ->
            Ret(w, ERR__CONFIGURATION)
       [] rs485 /\ conf.RS485.RTScontrol = "HARD_FLOW_CONTROL_RTS"
               /\ ~conf.RS485.UseHardwareControlFlow -> Ret(w, ERR__CONFIGURATION)
       [] rs485 /\ conf.RS485.RTScontrol = "MANUAL_EXTERNAL_RTS"
               /\ conf.RS485.UseHardwareControlFlow -> Ret(w, ERR__CONFIGURATION)
       [] rs485 /\ conf.RS485.AutoRS485mode \notin
               {"NO_AUTO_RS485_MODE", "MULTIDROP_MODE", "AUTO_ADDRESS_DETECT"} ->
            Ret(w, ERR__CONFIGURATION)
       [] conf.UARTtype = "IrDA" /\ conf.IrDA.IrDAmode = "SIR_1_4_RATIO"
               /\ ~w.comp.IrDA_1_4_RATIO -> Ret(w, ERR__NOT_SUPPORTED)
       [] OTHER ->
            \* w0.err is Error after the switch on the UART type: the outcome
            \* of the automatic address detection block, or what the
            \* uninitialized object holds
            Local([w0 \in {
                IF autoAddr
                  THEN Local([s1 \in {SC16IS7XX_SetRegisterAccess(w, channel,
                                        SC16IS7XX_LCR_VALUE_SET_ENHANCED_FEATURE_REGISTER)} |->
                    IF s1.err # ERR_OK THEN s1
                    ELSE Local([s3 \in {SC16IS7XX_WriteRegister(
                                          SC16IS7XX_ModifyRegister(s1, channel, RegSC16IS7XX_EFR, 32, 32),
                                          channel, RegSC16IS7XX_XOFF2, conf.RS485.AddressChar)} |->
                      Local([s4 \in {SC16IS7XX_ReturnAccessToGeneralRegister(s3, channel,
                                                                             s1.val[1])} |->
                        IF s3.err # ERR_OK THEN Ret(s4, s3.err) ELSE s4])])])
                  ELSE Ret(w, w.garbErr)} |->
              IF autoAddr /\ w0.err # ERR_OK THEN w0
              ELSE Local([wa \in {SC16IS7XX_ModifyRegister(w0, channel, RegSC16IS7XX_MCR,
                                                           RegMCR, 64)} |->
                IF w0.err # ERR_OK THEN Ret(wa, w0.err)
                ELSE SC16IS7XX_WriteRegister(
                       SC16IS7XX_ModifyRegister(
                         SC16IS7XX_ModifyRegister(wa, channel, RegSC16IS7XX_EFCR, RegEFCR, 177),
                         channel, RegSC16IS7XX_IOControl, RegIOC, RegIOCmask),
                       channel, RegSC16IS7XX_LCR, LineFormatLCR(conf))])])

\* Limits of the baud rate computation (SC16IS7XX.h)
SC16IS7XX_FREQ_MIN == 1600
SC16IS7XX_XTAL_FREQ_MAX == 24000000
SC16IS7XX_OSC_FREQ_MAX == 80000000
SC16IS7XX_BAUDRATE_MIN == 100
SC16IS7XX_BAUDRATE_MAX == 5000000
SC16IS7XX_IrDA_SPEED_MAX == 115200
SC16IS76X_IrDA_SPEED_MAX == 1152000

SC16IS7XX_ABSOLUTE(value) == IF value < 0 THEN -value ELSE value

\* The baud rate computation is done in the C type float (IEEE 754 binary32,
\* round to nearest, ties to even).  A float is the record [m, e, s] of value
\* s * m * 2^e with m = 0 or 2^23 <= m < 2^24.
\* F32Round: the float nearest to s * (n + t) * 2^e, where 0 < t < 1 if sticky
\* and t = 0 otherwise (sticky only with n >= 2^25).
F32Round(n, sticky, e, s) ==
  IF n = 0 THEN [m |-> 0, e |-> 0, s |-> 1]
  ELSE IF n < 2^23
    THEN LET k == CHOOSE j \in 0..23 : 2^(23 - j) <= n /\ n < 2^(24 - j)
         IN [m |-> n * 2^k, e |-> e - k, s |-> s]
    ELSE LET k == CHOOSE j \in 0..7 : 2^23 <= n \div 2^j /\ n \div 2^j < 2^24
             q == n \div 2^k
             r == n % 2^k
             up == k > 0 /\ (2 * r > 2^k \/ (2 * r = 2^k /\ (sticky \/ q % 2 = 1)))
         IN IF up /\ q + 1 = 2^24 THEN [m |-> 2^23, e |-> e + k + 1, s |-> s]
            ELSE [m |-> IF up THEN q + 1 ELSE q, e |-> e + k, s |-> s]

\* (float)x of an unsigned integer x
F32(x) == F32Round(x, FALSE, 0, 1)

\* a / b: 28 quotient bits by long division, 7 bits at a time (r0..r4 are
\* the successive remainders), the last remainder as sticky bit; a / 0 is
\* infinity, held as a float of exponent 128
F32Div(a, b) ==
  LET r0 == a.m % b.m
      r1 == (128 * r0) % b.m
      r2 == (128 * r1) % b.m
      r3 == (128 * r2) % b.m
      r4 == (128 * r3) % b.m
      q == ((((a.m \div b.m) * 128 + (128 * r0) \div b.m) * 128 + (128 * r1) \div b.m) * 128
            + (128 * r2) \div b.m) * 128 + (128 * r3) \div b.m
  IN IF b.m = 0 THEN [m |-> 2^23, e |-> 128, s |-> a.s * b.s]
     ELSE F32Round(q, r4 # 0, a.e - b.e - 28, a.s * b.s)

\* a * b: the 48-bit product of the mantissas from their 12-bit halves
F32Mul(a, b) ==
  LET a1 == a.m \div 4096
      a0 == a.m % 4096
      b1 == b.m \div 4096
      b0 == b.m % 4096
      mid == a1 * b0 + a0 * b1
      low == (mid % 4096) * 4096 + a0 * b0
      high == a1 * b1 + mid \div 4096 + low \div 2^24
  IN F32Round(high * 64 + (low % 2^24) \div 2^18, low % 2^18 # 0,
              a.e + b.e + 18, a.s * b.s)

\* a + b: the operand of smaller magnitude is aligned on the other one, the
\* bits shifted out of it make the sticky bit
F32Add(a, b) ==
  IF a.m = 0 THEN b
  ELSE IF b.m = 0 THEN a
  ELSE LET aIsHi == a.e > b.e \/ (a.e = b.e /\ a.m >= b.m)
           hi == IF aIsHi THEN a ELSE b
           lo == IF aIsHi THEN b ELSE a
           d == hi.e - lo.e
           exact == hi.s * hi.m * 2^d + lo.s * lo.m
           sticky == d >= 31 \/ lo.m % 2^(d - 6) # 0
           part == IF d >= 31 THEN 0 ELSE lo.m \div 2^(d - 6)
       IN IF d <= 6
            THEN F32Round(SC16IS7XX_ABSOLUTE(exact), FALSE, lo.e, IF exact < 0 THEN -1 ELSE 1)
            ELSE F32Round(IF hi.s = lo.s THEN hi.m * 64 + part
                          ELSE hi.m * 64 - part - (IF sticky THEN 1 ELSE 0),
                          sticky, hi.e - 6, hi.s)

\* A divisor computation without "if (DivisorPrescaler < 0x0001)
\* DivisorPrescaler = 1".
DivisorPrescalerFrom0(CompFreq, baudrate, prescaler) ==
  Local([x \in {F32Add(F32Div(F32(CompFreq), F32Mul(F32Mul(F32(baudrate), F32(16)),
                                                    F32(prescaler))),
                       F32Round(1, FALSE, -1, 1))} |->
    IF x.e >= -7 THEN 65535
    ELSE IF x.e <= -24 THEN 0
    ELSE x.m \div 2^(-x.e)])

\* (uint32_t)(CompFreq / (baudrate * 16 * prescaler) + 0.5f), kept in 1..65535;
\* a float of exponent -7 or more is 65536 or more
DivisorPrescaler(CompFreq, baudrate, prescaler) ==
  Local([x \in {F32Add(F32Div(F32(CompFreq), F32Mul(F32Mul(F32(baudrate), F32(16)),
                                                    F32(prescaler))),
                       F32Round(1, FALSE, -1, 1))} |->
    IF x.e >= -7 THEN 65535
    ELSE IF x.e <= -24 \/ x.m \div 2^(-x.e) < 1 THEN 1
    ELSE x.m \div 2^(-x.e)])

\* BaudRatePrescaler = CompFreq / (Divisor * 16 * prescaler);
\* ErrorPrescaler = ((BaudRatePrescaler - baudrate) * 100000) / baudrate
ErrorPrescaler(CompFreq, baudrate, divisor, prescaler) ==
  F32Div(F32Mul(F32Add(F32Div(F32(CompFreq), F32Mul(F32Mul(F32(divisor), F32(16)),
                                                    F32(prescaler))),
                       [F32(baudrate) EXCEPT !.s = -1]),
                F32(100000)),
         F32(baudrate))

\* A comparison of the two errors that gives equal errors to prescaler 1.
Prescaler1OnTies(CompFreq, baudrate, d1, d4) ==
  Local([e1 \in {ErrorPrescaler(CompFreq, baudrate, d1, 1)} |->
    Local([e4 \in {ErrorPrescaler(CompFreq, baudrate, d4, 4)} |->
      e1.m = 0 \/ e1.e < e4.e \/ (e1.e = e4.e /\ e1.m <= e4.m)])])

\* SC16IS7XX_ABSOLUTE(ErrorPrescaler1) < SC16IS7XX_ABSOLUTE(ErrorPrescaler4)
Prescaler1IsBetter(CompFreq, baudrate, d1, d4) ==
  Local([e1 \in {ErrorPrescaler(CompFreq, baudrate, d1, 1)} |->
    Local([e4 \in {ErrorPrescaler(CompFreq, baudrate, d4, 4)} |->
      e4.m # 0 /\ (e1.m = 0 \/ e1.e < e4.e \/ (e1.e = e4.e /\ e1.m < e4.m))])])

\* Limits tests that accept every clock and baud rate.
NoBaudRateLimit(comp, conf) == ERR_OK

BaudRateLimitError(comp, conf) ==
  LET CompFreq == IF comp.XtalFreq # 0 THEN comp.XtalFreq ELSE comp.OscFreq
  IN CASE comp.XtalFreq # 0 /\ comp.XtalFreq < SC16IS7XX_FREQ_MIN -> ERR__FREQUENCY_ERROR
       [] comp.XtalFreq # 0 /\ comp.XtalFreq > SC16IS7XX_XTAL_FREQ_MAX -> ERR__FREQUENCY_ERROR
       [] comp.OscFreq # 0 /\ comp.OscFreq < SC16IS7XX_FREQ_MIN -> ERR__FREQUENCY_ERROR
       [] comp.OscFreq # 0 /\ comp.OscFreq > SC16IS7XX_OSC_FREQ_MAX -> ERR__FREQUENCY_ERROR
       [] CompFreq = 0 -> ERR__FREQUENCY_ERROR
       [] conf.UARTbaudrate < SC16IS7XX_BAUDRATE_MIN -> ERR__BAUDRATE_ERROR
       [] conf.UARTbaudrate > SC16IS7XX_BAUDRATE_MAX -> ERR__BAUDRATE_ERROR
       [] conf.UARTtype = "IrDA" /\ conf.IrDA.IrDAmode = "SIR_1_4_RATIO" /\ comp.IrDA_1_4_RATIO
            /\ conf.UARTbaudrate > SC16IS76X_IrDA_SPEED_MAX -> ERR__BAUDRATE_ERROR
       [] conf.UARTtype = "IrDA" /\ conf.IrDA.IrDAmode = "SIR_1_4_RATIO" /\ ~comp.IrDA_1_4_RATIO ->
            ERR__NOT_SUPPORTED
       [] conf.UARTtype = "IrDA" /\ conf.IrDA.IrDAmode # "SIR_1_4_RATIO"
            /\ conf.UARTbaudrate > SC16IS7XX_IrDA_SPEED_MAX -> ERR__BAUDRATE_ERROR
       [] OTHER -> ERR_OK

\* (int32_t) of a float: truncation toward zero, saturated
F32ToInt32(x) ==
  IF x.m = 0 \/ x.e <= -24 THEN 0
  ELSE IF x.e < 0 THEN x.s * (x.m \div 2^(-x.e))
  ELSE IF x.e <= 7 THEN x.s * x.m * 2^x.e
  ELSE IF x.s = 1 THEN 2147483647 ELSE -2147483647 - 1

\* *(pUARTConf->UARTbaudrateError) = (int32_t)ErrorPrescaler;
StoreBaudrateError(w, conf, error) ==
  IF conf.UARTbaudrateError = NULL
    THEN [w EXCEPT !.nullDeref = TRUE, !.err = IF w.ub = "trap" THEN NO_RETURN ELSE @]
    ELSE [w EXCEPT !.baudrateError = F32ToInt32(error)]

SC16IS7XX_SetUARTBaudRate(w, u, conf) ==
  LET channel == w.uart[u].Channel
      limit == BaudRateLimitError(w.comp, conf)
      CompFreq == IF w.comp.XtalFreq # 0 THEN w.comp.XtalFreq ELSE w.comp.OscFreq
  IN Local([w1 \in {SC16IS7XX_IsDeviceInSleepMode(w)} |->
       IF w1.err # ERR_OK THEN w1
       ELSE IF w1.flag THEN Ret(w1, ERR__NOT_IN_SLEEP_MODE)
       ELSE IF limit # ERR_OK THEN Ret(w1, limit)
       ELSE
       Local([DivisorPrescaler1 \in {DivisorPrescaler(CompFreq, conf.UARTbaudrate, 1)} |->
       Local([DivisorPrescaler4 \in {DivisorPrescaler(CompFreq, conf.UARTbaudrate, 4)} |->
       Local([use1 \in {Prescaler1IsBetter(CompFreq, conf.UARTbaudrate, DivisorPrescaler1,
                                           DivisorPrescaler4)} |->
       Local([DivPresToSet \in {IF use1 THEN DivisorPrescaler1 ELSE DivisorPrescaler4} |->
       Local([ws \in {StoreBaudrateError(w1, conf,
                        ErrorPrescaler(CompFreq, conf.UARTbaudrate, DivPresToSet,
                                       IF use1 THEN 1 ELSE 4))} |->
       IF ws.err = NO_RETURN THEN ws
       ELSE
       Local([w2 \in {SC16IS7XX_ModifyRegister(ws, channel, RegSC16IS7XX_MCR,
                                               IF use1 THEN 0 ELSE 128, 128)} |->
         IF w2.err # ERR_OK THEN w2
         ELSE Local([w3 \in {SC16IS7XX_SetRegisterAccess(w2, channel,
                               SC16IS7XX_LCR_VALUE_SET_SPECIAL_REGISTER)} |->
           IF w3.err # ERR_OK THEN w3
           ELSE Local([w4 \in {SC16IS7XX_WriteRegister(w3, channel, RegSC16IS7XX_DLL,
                                                       DivPresToSet % 256)} |->
             IF w4.err # ERR_OK THEN w4
             ELSE Local([w5 \in {SC16IS7XX_WriteRegister(w4, channel, RegSC16IS7XX_DLH,
                                                         (DivPresToSet \div 256) % 256)} |->
               IF w5.err # ERR_OK THEN w5
               ELSE SC16IS7XX_ReturnAccessToGeneralRegister(w5, channel, w3.val[1])])])])])
       ])])])])])])

\* Whether a software flow control configuration uses the Xoff2 character
\* (transmit Xon2/Xoff2: bit 3, receiver compares Xon2/Xoff2: bit 1).
SC16IS7XX_IS_SOFT_CONTROL_FLOW_USES_XOFF2(config) ==
  (Bit(config, 3) = 1) \/ (Bit(config, 1) = 1)

\* "if (Error != ERR_OK) ErrorReturn = Error;"
KeepError(w) == IF w.err # ERR_OK THEN [w EXCEPT !.errRet = w.err] ELSE w

\* A test of the two descriptors that accepts every pair.
BothFlowsAccepted(pHardFlow, pSoftFlow) == FALSE

\* "(pHardFlow != NULL) && (pSoftFlow != NULL)"
HardAndSoftFlow(pHardFlow, pSoftFlow) == Len(pHardFlow) > 0 /\ Len(pSoftFlow) > 0

\* A test of the trigger levels that accepts every pair.
TriggerLevelsAccepted(HoldAt, ResumeAt) == FALSE

\* "(uint8_t)HoldAt <= (uint8_t)ResumeAt"
TriggerLevelsRejected(HoldAt, ResumeAt) == (HoldAt % 256) <= (ResumeAt % 256)

\* TCR: the Rx FIFO level that halts the transmission in bits 3..0, the level
\* that resumes it in bits 7..4.
SC16IS7XX_TCR_HALT_TRIGGER_LEVEL_SET(value) == BitAnd(value % 256, 15)

\* A resume level that is placed in bits 3..0.
ResumeLevelInLowBits(value) == BitAnd(value % 256, 15)

SC16IS7XX_TCR_RESUME_TRIGGER_LEVEL_SET(value) == BitAnd((value * 16) % 256, 240)

\* pHardFlow, pSoftFlow and pSpecialChar are <<>> (NULL) or <<object>>.
\* Errors met while the enhanced register set is selected are collected in
\* ErrorReturn; the return to the general register set is always issued.
__SC16IS7XX_SetControlFlowConfiguration(w, u, pHardFlow, pSoftFlow, pSpecialChar, useAddressChar) ==
  LET channel == w.uart[u].Channel
      anyFlow == Len(pHardFlow) > 0 \/ Len(pSoftFlow) > 0
      \* "(pHardFlow != NULL) && (pSoftFlow == NULL)" and the converse
      hard == Len(pHardFlow) > 0 /\ Len(pSoftFlow) = 0
      soft == Len(pHardFlow) = 0 /\ Len(pSoftFlow) > 0
      spec == Len(pSpecialChar) > 0
      HoldAt == IF Len(pHardFlow) > 0 THEN pHardFlow[1].HoldAt ELSE pSoftFlow[1].HoldAt
      ResumeAt == IF Len(pHardFlow) > 0 THEN pHardFlow[1].ResumeAt
                  ELSE pSoftFlow[1].ResumeAt
      RegTCR == BitOr(SC16IS7XX_TCR_HALT_TRIGGER_LEVEL_SET(HoldAt),
                      SC16IS7XX_TCR_RESUME_TRIGGER_LEVEL_SET(ResumeAt))
      \* ErrorReturn as the configuration checks of the block leave it
      ConfigError ==
        IF soft /\ spec /\ SC16IS7XX_IS_SOFT_CONTROL_FLOW_USES_XOFF2(pSoftFlow[1].Config)
          THEN ERR__CONFIGURATION
        ELSE IF hard /\ spec /\ useAddressChar THEN ERR__CONFIGURATION
        ELSE ERR_OK
      RegEFR0 ==
        CASE hard -> 16 + (IF pHardFlow[1].RTSpinControl = "AUTOMATIC" THEN 64 ELSE 0)
                        + (IF pHardFlow[1].CTSpinControl = "AUTOMATIC" THEN 128 ELSE 0)
                        + (IF useAddressChar THEN 32 ELSE 0)
          [] soft -> 16 + BitAnd(pSoftFlow[1].Config, 15)
          [] OTHER -> 16 + (IF useAddressChar THEN 32 ELSE 0)
      RegEFR == IF spec THEN BitOr(RegEFR0, 32) ELSE RegEFR0
      RegValue == IF Len(pSoftFlow) > 0 /\ pSoftFlow[1].XonAnyChar THEN 32 ELSE 0
  IN IF HardAndSoftFlow(pHardFlow, pSoftFlow) THEN Ret(w, ERR__CONFIGURATION)
     ELSE IF anyFlow /\ TriggerLevelsRejected(HoldAt, ResumeAt)
       THEN Ret(w, ERR__CONFIGURATION)
     ELSE
     Local([w1 \in {IF anyFlow
                      THEN SC16IS7XX_WriteRegister(w, channel, RegSC16IS7XX_TCR, RegTCR)
                      ELSE Ret(w, ERR_OK)} |->
       IF w1.err # ERR_OK THEN w1
       ELSE
       Local([w2 \in {KeepError(SC16IS7XX_SetRegisterAccess(
                        [w1 EXCEPT !.errRet = ERR_OK], channel,
                        SC16IS7XX_LCR_VALUE_SET_ENHANCED_FEATURE_REGISTER))} |->
       Local([w3 \in {
           IF w2.errRet # ERR_OK THEN w2
           ELSE
           Local([x0 \in {[w2 EXCEPT !.errRet = ConfigError]} |->
           Local([x1 \in {IF soft THEN KeepError(SC16IS7XX_WriteRegister(
                                         x0, channel, RegSC16IS7XX_XON1, pSoftFlow[1].Xon1))
                                  ELSE x0} |->
           Local([x2 \in {IF soft THEN KeepError(SC16IS7XX_WriteRegister(
                                         x1, channel, RegSC16IS7XX_XON2, pSoftFlow[1].Xon2))
                                  ELSE x1} |->
           Local([x3 \in {IF soft THEN KeepError(SC16IS7XX_WriteRegister(
                                         x2, channel, RegSC16IS7XX_XOFF1, pSoftFlow[1].Xoff1))
                                  ELSE x2} |->
           Local([x4 \in {IF soft /\ ~spec
                            THEN KeepError(SC16IS7XX_WriteRegister(
                                   x3, channel, RegSC16IS7XX_XOFF2, pSoftFlow[1].Xoff2))
                            ELSE x3} |->
           Local([x5 \in {IF spec THEN KeepError(SC16IS7XX_WriteRegister(
                                         x4, channel, RegSC16IS7XX_XOFF2, pSpecialChar[1]))
                                  ELSE x4} |->
             KeepError(SC16IS7XX_WriteRegister(x5, channel, RegSC16IS7XX_EFR, RegEFR))
           ])])])])])])} |->
       Local([w4 \in {SC16IS7XX_ReturnAccessToGeneralRegister(w3, channel, w2.val[1])} |->
         IF w4.errRet # ERR_OK THEN Ret(w4, w4.errRet)
         ELSE IF w4.err # ERR_OK THEN w4
         ELSE SC16IS7XX_ModifyRegister(w4, channel, RegSC16IS7XX_MCR, RegValue, 32)
       ])])])])

\* =========================================================================
\* Transmit / receive engine
\* =========================================================================
\* eSC16IS7XX_DriverConfig
SC16IS7XX_DRIVER_SAFE_TX == 1
SC16IS7XX_DRIVER_SAFE_RX == 2
SC16IS7XX_TEST_LOOPBACK_AT_INIT == 128

\* eSC16IS7XX_ReceiveError
SC16IS7XX_NO_RX_ERROR == 0
SC16IS7XX_OVERRUN_ERROR == 2
SC16IS7XX_PARITY_ERROR == 4
SC16IS7XX_FRAMING_ERROR == 8
SC16IS7XX_BREAK_ERROR == 16

\* A mask of the receive errors that leaves the break condition out.
RxErrorMaskWithoutBreak ==
  SC16IS7XX_FRAMING_ERROR + SC16IS7XX_PARITY_ERROR + SC16IS7XX_OVERRUN_ERROR

SC16IS7XX_RX_ERROR_Mask ==
  SC16IS7XX_BREAK_ERROR + SC16IS7XX_FRAMING_ERROR + SC16IS7XX_PARITY_ERROR
  + SC16IS7XX_OVERRUN_ERROR

\* SC16IS7XX_Buffer: pData is the array (<<>> when the pointer is NULL),
\* index i of the C array is element i + 1 of the sequence.
BufferIsNull(pBuf) == Len(pBuf.pData) = 0

\* memcpy(&pData[pos], bytes, Len(bytes))
BufStore(pData, pos, bytes) ==
  [i \in 1..Len(pData) |->
     IF i - 1 >= pos /\ i - 1 < pos + Len(bytes) THEN bytes[i - pos] ELSE pData[i]]

\* The n bytes found at &pData[pos]; reading past the end of the array
\* yields whatever lies behind it (garb).
BufLoad(pData, pos, n, garb) ==
  [i \in 1..n |-> IF pos + i <= Len(pData) THEN pData[pos + i] ELSE garb]

\* A position that is left uncorrected.
UncorrectedPos(pos, BufferSize) == pos

\* "if (Pos >= BufferSize) Pos -= BufferSize"
CorrectPos(pos, BufferSize) == IF pos >= BufferSize THEN pos - BufferSize ELSE pos

\* How many of size bytes are stored into the Tx buffer.
TxStoreSize(pBuf, size) ==
  LET AvailableBufSize == IF pBuf.PosIn >= pBuf.PosOut
                            THEN pBuf.BufferSize - pBuf.PosIn
                            ELSE pBuf.PosOut - pBuf.PosIn
  IN IF size > AvailableBufSize THEN AvailableBufSize ELSE size

TxBufferStore(pBuf, data, n) ==
  IF n > 0
    THEN LET PosIn == CorrectPos(pBuf.PosIn + n, pBuf.BufferSize)
         IN [pBuf EXCEPT !.pData = BufStore(@, pBuf.PosIn, SubSeq(data, 1, n)),
                         !.PosIn = PosIn,
                         !.IsFull = (PosIn = pBuf.PosOut)]
    ELSE pBuf

\* How many bytes go from the Tx buffer to the FIFO.
TxDrainSize(pBuf, AvailableSpace) ==
  LET AvailableBufSize == IF pBuf.PosOut >= pBuf.PosIn
                            THEN pBuf.BufferSize - pBuf.PosIn
                            ELSE pBuf.PosIn - pBuf.PosOut
  IN IF (pBuf.PosOut # pBuf.PosIn) \/ pBuf.IsFull
       THEN (IF AvailableBufSize > AvailableSpace THEN AvailableSpace ELSE AvailableBufSize)
       ELSE 0

\* A drain that moves the Out position and leaves IsFull as it is.
TxBufferDrainKeepingFull(pBuf, n) ==
  IF n > 0
    THEN [pBuf EXCEPT !.PosOut = IF pBuf.PosOut + n >= pBuf.BufferSize
                                   THEN pBuf.PosOut + n - pBuf.BufferSize
                                   ELSE pBuf.PosOut + n]
    ELSE pBuf

TxBufferDrain(pBuf, n) ==
  IF n > 0
    THEN [pBuf EXCEPT !.PosOut = CorrectPos(pBuf.PosOut + n, pBuf.BufferSize),
                      !.IsFull = FALSE]
    ELSE pBuf

SC16IS7XX_GetAvailableSpaceTxFIFO(w, u) ==
  SC16IS7XX_ReadRegister(w, w.uart[u].Channel, RegSC16IS7XX_TXLVL)

SC16IS7XX_GetDataCountRxFIFO(w, u) ==
  SC16IS7XX_ReadRegister(w, w.uart[u].Channel, RegSC16IS7XX_RXLVL)

\* The result has cnt = *actuallySent.
SC16IS7XX_TransmitData(w, u, data) ==
  LET channel == w.uart[u].Channel
      size == Len(data)
      IsSafeTX == BitAnd(w.uart[u].DriverConfig, SC16IS7XX_DRIVER_SAFE_TX) > 0
      pBuf0 == w.uart[u].TxBuffer
      buffered == ~BufferIsNull(pBuf0)
      store == buffered /\ ~IsSafeTX /\ ~pBuf0.IsFull
      stored == IF store THEN TxStoreSize(pBuf0, size) ELSE 0
  IN Local([pBuf \in {IF store THEN TxBufferStore(pBuf0, data, stored) ELSE pBuf0} |->
     Local([w1 \in {SC16IS7XX_GetAvailableSpaceTxFIFO(
                      [w EXCEPT !.uart[u].TxBuffer = pBuf, !.cnt = stored], u)} |->
     Local([AvailableSpace \in {w1.val[1]} |->
       IF w1.err # ERR_OK THEN w1
       ELSE IF IsSafeTX
         THEN LET CountToSend == IF size > AvailableSpace THEN AvailableSpace ELSE size
                  safe[k \in 0..CountToSend] ==
                    IF k = 0 THEN w1
                    ELSE Local([p \in {safe[k - 1]} |->
                      IF p.err # ERR_OK THEN p
                      ELSE Local([wk \in {SC16IS7XX_WriteRegister(p, channel, RegSC16IS7XX_THR,
                                                                  data[k])} |->
                        IF wk.err # ERR_OK THEN wk ELSE [wk EXCEPT !.cnt = @ + 1]])])
              IN safe[CountToSend]
       ELSE IF buffered
         THEN Local([DataSizeToSend \in {TxDrainSize(pBuf, AvailableSpace)} |->
                __SC16IS7XX_WriteData(
                  [w1 EXCEPT !.uart[u].TxBuffer = TxBufferDrain(pBuf, DataSizeToSend)],
                  channel, RegSC16IS7XX_THR,
                  BufLoad(pBuf.pData, pBuf.PosOut, DataSizeToSend, w.garb))])
       ELSE Local([CountToSend \in {IF size > AvailableSpace THEN AvailableSpace ELSE size} |->
              __SC16IS7XX_WriteData([w1 EXCEPT !.cnt = CountToSend], channel,
                                    RegSC16IS7XX_THR, SubSeq(data, 1, CountToSend))])])])])

SC16IS7XX_FlushTxBufferToFIFO(w, u) == SC16IS7XX_TransmitData(w, u, <<>>)

\* The result is [pBuf, data, size, cnt]: the buffer, the caller's array,
\* *size and *actuallyReceived after the call.
__SC16IS7XX_RxBufferToDataBuff(pBuf, data, size, actuallyReceived) ==
  LET AvailableBufSize == IF pBuf.PosOut >= pBuf.PosIn
                            THEN pBuf.BufferSize - pBuf.PosOut
                            ELSE pBuf.PosIn - pBuf.PosOut
      n == IF size > AvailableBufSize THEN AvailableBufSize ELSE size
  IN IF ~((pBuf.PosOut # pBuf.PosIn) \/ pBuf.IsFull)
       THEN [pBuf |-> pBuf, data |-> data, size |-> size, cnt |-> actuallyReceived]
     ELSE IF n = 0
       THEN [pBuf |-> pBuf, data |-> data, size |-> size, cnt |-> 0]
     ELSE [pBuf |-> [pBuf EXCEPT !.PosOut = CorrectPos(pBuf.PosOut + n, pBuf.BufferSize),
                                 !.IsFull = FALSE],
           data |-> BufStore(data, 0, BufLoad(pBuf.pData, pBuf.PosOut, n, 0)),
           size |-> size - n, cnt |-> n]

\* A fill that takes every character of the FIFO.
RxFillSizeOfFifo(pBuf, AvailableData) == AvailableData

\* How many bytes go from the FIFO to the Rx buffer.
RxFillSize(pBuf, AvailableData) ==
  LET AvailableBufSize == IF pBuf.PosIn >= pBuf.PosOut
                            THEN pBuf.BufferSize - pBuf.PosIn
                            ELSE pBuf.PosOut - pBuf.PosIn
  IN IF pBuf.IsFull THEN 0
     ELSE IF AvailableBufSize > AvailableData THEN AvailableData ELSE AvailableBufSize

RxBufferFill(pBuf, n) ==
  IF n > 0
    THEN LET PosIn == CorrectPos(pBuf.PosIn + n, pBuf.BufferSize)
         IN [pBuf EXCEPT !.PosIn = PosIn, !.IsFull = (pBuf.PosOut = PosIn)]
    ELSE pBuf

\* data is the caller's array on entry (its length is the size argument); the
\* result has data = the array on return, cnt = *actuallyReceived and
\* lastErr = *lastDataError.
SC16IS7XX_ReceiveData(w, u, data) ==
  LET channel == w.uart[u].Channel
      IsSafeRX == BitAnd(w.uart[u].DriverConfig, SC16IS7XX_DRIVER_SAFE_RX) > 0
      pBuf0 == w.uart[u].RxBuffer
      buffered == ~BufferIsNull(pBuf0)
  IN Local([r1 \in {IF buffered /\ ~IsSafeRX
                      THEN __SC16IS7XX_RxBufferToDataBuff(pBuf0, data, Len(data), 0)
                      ELSE [pBuf |-> pBuf0, data |-> data, size |-> Len(data), cnt |-> 0]} |->
     Local([w1 \in {SC16IS7XX_GetDataCountRxFIFO(
                      [w EXCEPT !.uart[u].RxBuffer = r1.pBuf, !.data = r1.data, !.cnt = 0],
                      u)} |->
     Local([AvailableData \in {w1.val[1]} |->
       IF w1.err # ERR_OK THEN w1
       ELSE IF IsSafeRX
         THEN LET CountToGet == IF r1.size > AvailableData THEN AvailableData ELSE r1.size
                  safe[k \in 0..CountToGet] ==
                    IF k = 0 THEN w1
                    ELSE Local([p \in {safe[k - 1]} |->
                      IF p.err # ERR_OK THEN p
                      ELSE Local([wl \in {SC16IS7XX_ReadRegister(p, channel,
                                                                 RegSC16IS7XX_LSR)} |->
                        IF wl.err # ERR_OK THEN wl
                        ELSE Local([wr \in {SC16IS7XX_ReadRegister(
                                              [wl EXCEPT !.lastErr = BitAnd(wl.val[1],
                                                                          SC16IS7XX_RX_ERROR_Mask)],
                                              channel, RegSC16IS7XX_RHR)} |->
                          IF wr.err # ERR_OK THEN wr
                          ELSE Local([wd \in {[wr EXCEPT !.data = BufStore(@, k - 1, wr.val),
                                                         !.cnt = @ + 1]} |->
                            IF wd.lastErr # SC16IS7XX_NO_RX_ERROR
                              THEN Ret(wd, ERR__RECEIVE_ERROR) ELSE wd])])])])
              IN safe[CountToGet]
       ELSE IF buffered
         THEN Local([DataSizeToGet \in {RxFillSize(r1.pBuf, AvailableData)} |->
              Local([w2 \in {__SC16IS7XX_ReadData(
                               [w1 EXCEPT !.uart[u].RxBuffer =
                                            RxBufferFill(r1.pBuf, DataSizeToGet)],
                               channel, RegSC16IS7XX_RHR, DataSizeToGet)} |->
                IF w2.err # ERR_OK THEN w2
                ELSE Local([r2 \in {__SC16IS7XX_RxBufferToDataBuff(
                                      IF DataSizeToGet > 0
                                        THEN [w2.uart[u].RxBuffer EXCEPT
                                                !.pData = BufStore(@, r1.pBuf.PosIn, w2.val)]
                                        ELSE w2.uart[u].RxBuffer,
                                      w2.data, r1.size, w2.cnt)} |->
                  [w2 EXCEPT !.uart[u].RxBuffer = r2.pBuf, !.data = r2.data,
                             !.cnt = r2.cnt]])])])
       ELSE Local([CountToGet \in {IF r1.size > AvailableData THEN AvailableData
                                   ELSE r1.size} |->
            Local([w3 \in {__SC16IS7XX_ReadData([w1 EXCEPT !.cnt = CountToGet], channel,
                                                RegSC16IS7XX_RHR, CountToGet)} |->
              IF w3.err # ERR_OK \/ CountToGet = 0 THEN w3
              ELSE [w3 EXCEPT !.data = BufStore(@, 0, w3.val)]])])])])])

SC16IS7XX_RetrieveRxFIFOtoBuffer(w, u) == SC16IS7XX_ReceiveData(w, u, <<>>)

\* =========================================================================
\* The chip's transmitter
\* =========================================================================
\* One character leaves the Tx FIFO of a channel (transmitter enabled). In
\* local loopback (MCR[4]) it enters the Rx FIFO of the same channel,
\* otherwise the Rx FIFO of the other channel, to which the Tx line is wired.
\* The character moves only when the receiving FIFO has room.
HwDestination(dev, channel) ==
  IF Bit(dev.reg[channel]["MCR"], 4) = 1 THEN channel ELSE 1 - channel

HwCanShift(dev, channel) ==
  /\ Len(dev.txFifo[channel]) > 0
  /\ Bit(dev.reg[channel]["EFCR"], 2) = 0
  /\ Bit(dev.reg[HwDestination(dev, channel)]["EFCR"], 1) = 0
  /\ Len(dev.rxFifo[HwDestination(dev, channel)]) < MaxFifo

HwShift(dev, channel) ==
  LET c == Head(dev.txFifo[channel])
      d == [dev EXCEPT !.txFifo[channel] = Tail(@)]
  IN [d EXCEPT !.rxFifo[HwDestination(dev, channel)] = Append(@, c)]

\* The chip after the transmitter of a channel has run for as long as it can.
HwSettle(dev, channel) ==
  LET run[k \in 0..MaxFifo] ==
        IF k = 0 THEN dev
        ELSE Local([d \in {run[k - 1]} |->
               IF HwCanShift(d, channel) THEN HwShift(d, channel) ELSE d])
  IN run[MaxFifo]

\* The chip after both transmitters have run for as long as they can.
HwRest(dev) == HwSettle(HwSettle(dev, SC16IS7XX_CHANNEL_A), SC16IS7XX_CHANNEL_B)

\* =========================================================================
\* Character transfers and the loopback test
\* =========================================================================
\* do { TransmitData(1 byte) } while (ActuallySent == 0): the chip runs
\* between two polls; when a poll made after the chip has come to rest still
\* sends nothing, every later poll does the same.
SC16IS7XX_TransmitChar(w, u, data) ==
  Local([w1 \in {SC16IS7XX_TransmitData(w, u, <<data>>)} |->
    IF w1.err # ERR_OK \/ w1.cnt > 0 THEN w1
    ELSE Local([w2 \in {SC16IS7XX_TransmitData([w1 EXCEPT !.dev = HwRest(@)], u,
                                               <<data>>)} |->
      IF w2.err # ERR_OK \/ w2.cnt > 0 THEN w2
      ELSE Ret(w2, NO_RETURN)])])

\* do { ReceiveData(1 byte) } while (ActuallyReceived == 0)
SC16IS7XX_ReceiveChar(w, u) ==
  Local([w1 \in {SC16IS7XX_ReceiveData(w, u, <<0>>)} |->
    IF w1.err # ERR_OK \/ w1.cnt > 0 THEN w1
    ELSE Local([w2 \in {SC16IS7XX_ReceiveData([w1 EXCEPT !.dev = HwRest(@)], u, <<0>>)} |->
      IF w2.err # ERR_OK \/ w2.cnt > 0 THEN w2
      ELSE Ret(w2, NO_RETURN)])])

\* SC16IS7XX_IS_THR_AND_TSR_EMPTY(RegLSR.LSR)
SC16IS7XX_IS_THR_AND_TSR_EMPTY(value) == BitAnd(value, 64) > 0

\* The first loop flushes the Tx buffer until it is empty, going on after a
\* busy result; the second polls LSR until THR and TSR are empty.  The chip
\* runs between two polls; a loop whose poll, made after the chip has come to
\* rest, changes nothing does not end.
SC16IS7XX_WaitEndTx(w, u) ==
  LET channel == w.uart[u].Channel
      NotEmpty(pBuf) == pBuf.IsFull \/ pBuf.PosIn # pBuf.PosOut
      flush[k \in 0..(MaxBuf + 2)] ==
        IF k = 0 THEN Ret(w, ERR_OK)
        ELSE Local([p \in {flush[k - 1]} |->
          IF p.err # ERR_OK \/ BufferIsNull(p.uart[u].TxBuffer)
             \/ ~NotEmpty(p.uart[u].TxBuffer) THEN p
          ELSE Local([wf \in {SC16IS7XX_FlushTxBufferToFIFO(p, u)} |->
            IF wf.err \in {ERR_OK, ERR__BUSY, ERR__SPI_BUSY, ERR__I2C_BUSY}
              THEN [wf EXCEPT !.err = ERR_OK, !.dev = HwRest(@)]
              ELSE wf])])
  IN Local([wd \in {flush[MaxBuf + 2]} |->
       IF wd.err # ERR_OK THEN wd
       ELSE IF ~BufferIsNull(wd.uart[u].TxBuffer) /\ NotEmpty(wd.uart[u].TxBuffer)
         THEN Ret(wd, NO_RETURN)
       ELSE
         LET poll[k \in 0..2] ==
               IF k = 0 THEN Ret(wd, NO_RETURN)
               ELSE Local([p \in {poll[k - 1]} |->
                 IF p.err # NO_RETURN THEN p
                 ELSE Local([wl \in {SC16IS7XX_ReadRegister(p, channel,
                                                            RegSC16IS7XX_LSR)} |->
                   IF wl.err # ERR_OK THEN wl
                   ELSE IF SC16IS7XX_IS_THR_AND_TSR_EMPTY(wl.val[1]) THEN wl
                   ELSE [wl EXCEPT !.err = NO_RETURN, !.dev = HwRest(@)]])])
         IN poll[2]])

\* CharError is not initialized at its declaration: it holds w.garb until a
\* receive function assigns *lastDataError.
SC16IS7XX_UARTCommTest(w, u) ==
  Local([channel \in {w.uart[u].Channel} |->
  Local([w1 \in {SC16IS7XX_ReadRegister([w EXCEPT !.lastErr = w.garb], channel,
                                        RegSC16IS7XX_MCR)} |->
    IF w1.err # ERR_OK THEN w1 ELSE
  Local([RegMCR \in {BitOr(w1.val[1], 16)} |->
  Local([w2 \in {SC16IS7XX_WriteRegister(w1, channel, RegSC16IS7XX_MCR, RegMCR)} |->
    IF w2.err # ERR_OK THEN w2 ELSE
  Local([w3 \in {SC16IS7XX_ResetFIFO(w2, u, TRUE, TRUE)} |->
    IF w3.err # ERR_OK THEN w3 ELSE
  Local([w4 \in {SC16IS7XX_TransmitChar(w3, u, 21)} |->
    IF w4.err # ERR_OK THEN w4 ELSE
  Local([w5 \in {SC16IS7XX_ReceiveChar(w4, u)} |->
    IF w5.err # ERR_OK THEN w5
    ELSE IF w5.lastErr # 0 THEN Ret(w5, ERR__PERIPHERAL_NOT_VALID)
    ELSE IF w5.data[1] # 21 THEN Ret(w5, ERR__PERIPHERAL_NOT_VALID) ELSE
  Local([w6 \in {SC16IS7XX_TransmitChar(w5, u, 10)} |->
    IF w6.err # ERR_OK THEN w6 ELSE
  Local([w7 \in {SC16IS7XX_ReceiveChar(w6, u)} |->
    IF w7.err # ERR_OK THEN w7
    ELSE IF w7.lastErr # 0 THEN Ret(w7, ERR__PERIPHERAL_NOT_VALID)
    ELSE IF w7.data[1] # 10 THEN Ret(w7, ERR__PERIPHERAL_NOT_VALID)
    ELSE SC16IS7XX_WriteRegister(w7, channel, RegSC16IS7XX_MCR, BitAnd(RegMCR, 239))
  ])])])])])])])])])

\* =========================================================================
\* UART initialization
\* =========================================================================
BufferReset(pBuf) ==
  IF BufferIsNull(pBuf) THEN pBuf
  ELSE [pBuf EXCEPT !.PosIn = 0, !.PosOut = 0, !.IsFull = FALSE]

\* pHardFlow, pSoftFlow, pSpecialChar and UseAddressChar selected from the
\* configuration for the final control flow step.
ConfHardFlow(conf) ==
  CASE conf.UARTtype = "RS232" /\ conf.RS232.ControlFlowType = "HARDWARE_CONTROL_FLOW" ->
         <<conf.RS232.HardFlowControl>>
    [] conf.UARTtype = "RS485" /\ conf.RS485.UseHardwareControlFlow ->
         <<conf.RS485.HardFlowControl>>
    [] conf.UARTtype = "Modem" /\ conf.Modem.UseHardwareControlFlow ->
         <<conf.Modem.HardFlowControl>>
    [] OTHER -> <<>>

ConfSoftFlow(conf) ==
  CASE conf.UARTtype = "RS232" /\ conf.RS232.ControlFlowType = "SOFTWARE_CONTROL_FLOW" ->
         <<conf.RS232.SoftFlowControl>>
    [] conf.UARTtype = "IrDA" /\ conf.IrDA.UseSoftwareControlFlow ->
         <<conf.IrDA.SoftFlowControl>>
    [] OTHER -> <<>>

ConfSpecialChar(conf) == IF conf.UseSpecialChar THEN <<conf.SpecialChar>> ELSE <<>>

ConfUseAddressChar(conf) ==
  conf.UARTtype = "RS485" /\ conf.RS485.AutoRS485mode = "AUTO_ADDRESS_DETECT"

\* An interrupt masking step that enables every interrupt.
EnableAllInterrupts(w, channel) ==
  SC16IS7XX_WriteRegister(AtStep(w, "DisableInterrupts"), channel, RegSC16IS7XX_IER, 255)

\* "Disable all interrupts" of the initialization: IER = 0x00
DisableAllInterrupts(w, channel) ==
  SC16IS7XX_WriteRegister(AtStep(w, "DisableInterrupts"), channel, RegSC16IS7XX_IER, 0)

\* A control flow step that leaves the control flow as it finds it.
ControlFlowLeftAsIs(w, u) == Ret(AtStep(w, "DisableControlFlow"), ERR_OK)

\* "Disable control flow" of the initialization
DisableControlFlow(w, u) ==
  __SC16IS7XX_SetControlFlowConfiguration(AtStep(w, "DisableControlFlow"), u,
                                          <<>>, <<>>, <<>>, FALSE)

\* "Test UART connection" of the initialization; a marker in the log holds
\* EFR and MCR of the channel as the test finds them.
TestUARTConnection(w, u) ==
  SC16IS7XX_UARTCommTest(
    [w EXCEPT !.step = "UARTCommTest",
              !.log = Append(@, LogEntry(AtStep(w, "UARTCommTest"), "CommTest",
                                         w.uart[u].Channel, RegSC16IS7XX_EFR, "EFR",
                                         <<w.dev.reg[w.uart[u].Channel]["EFR"],
                                           w.dev.reg[w.uart[u].Channel]["MCR"]>>, TRUE))],
    u)

\* A check of the channel index that does not look at the part.
ChannelIndexOutOfRange(comp, channel) == channel >= SC16IS7XX_CHANNEL_COUNT

\* "Check the UART channel"
UARTChannelIsUnknown(comp, channel) ==
  \/ channel >= SC16IS7XX_CHANNEL_COUNT
  \/ channel = SC16IS7XX_CHANNEL_B /\ ~comp.HAVE_2_UARTS

SC16IS7XX_InitUART(w, u, conf) ==
  LET channel == w.uart[u].Channel
      test == BitAnd(w.uart[u].DriverConfig, SC16IS7XX_TEST_LOOPBACK_AT_INIT) > 0
              /\ ~conf.DisableTransmitter /\ ~conf.DisableReceiver
      flow == Len(ConfHardFlow(conf)) > 0 \/ Len(ConfSoftFlow(conf)) > 0
              \/ Len(ConfSpecialChar(conf)) > 0
  IN
  IF UARTChannelIsUnknown(w.comp, channel) THEN Ret(w, ERR__UNKNOWN_ELEMENT) ELSE
  Local([w01 \in {SC16IS7XX_EnableEnhancedFunctions(
                    AtStep([w EXCEPT !.uart[u].TxBuffer = BufferReset(@),
                                     !.uart[u].RxBuffer = BufferReset(@)],
                           "EnableEnhancedFunctions"), channel)} |->
    IF w01.err # ERR_OK THEN w01 ELSE
  Local([w02 \in {SC16IS7XX_ModifyRegister(AtStep(w01, "EnableTCRTLR"), channel,
                                           RegSC16IS7XX_MCR, 4, 4)} |->
    IF w02.err # ERR_OK THEN w02 ELSE
  Local([w03 \in {SC16IS7XX_ReadRegister(AtStep(w02, "SaveIER"), channel,
                                         RegSC16IS7XX_IER)} |->
    IF w03.err # ERR_OK THEN w03 ELSE
  Local([OriginalIER \in {w03.val[1]} |->
  Local([w04 \in {DisableAllInterrupts(w03, channel)} |->
    IF w04.err # ERR_OK THEN w04 ELSE
  Local([w05 \in {SC16IS7XX_TxRxDisable(AtStep(w04, "DisableTxRx"), u, TRUE, TRUE)} |->
    IF w05.err # ERR_OK THEN w05 ELSE
  Local([w06 \in {SC16IS7XX_ResetFIFO(AtStep(w05, "ResetFIFO"), u, TRUE, TRUE)} |->
    IF w06.err # ERR_OK THEN w06 ELSE
  Local([w07 \in {DisableControlFlow(w06, u)} |->
    IF w07.err # ERR_OK THEN w07 ELSE
  Local([w08 \in {__SC16IS7XX_SetUARTConfiguration(AtStep(w07, "SetUARTConfiguration"),
                                                   u, conf)} |->
    IF w08.err # ERR_OK THEN w08 ELSE
  Local([w09 \in {SC16IS7XX_SetUARTBaudRate(AtStep(w08, "SetUARTBaudRate"), u, conf)} |->
    IF w09.err # ERR_OK THEN w09 ELSE
  Local([w10 \in {__SC16IS7XX_ConfigureFIFOs(AtStep(w09, "ConfigureFIFOs"), u,
                                             conf.UseFIFOs, conf.TxTrigLvl,
                                             conf.RxTrigLvl)} |->
    IF w10.err # ERR_OK THEN w10 ELSE
  Local([w11 \in {SC16IS7XX_WriteRegister(AtStep(w10, "RestoreInterrupts"), channel,
                                          RegSC16IS7XX_IER, OriginalIER)} |->
    IF w11.err # ERR_OK THEN w11 ELSE
  Local([w12 \in {SC16IS7XX_TxRxDisable(AtStep(w11, "ConfigureTxRx"), u,
                                        conf.DisableTransmitter, conf.DisableReceiver)} |->
    IF w12.err # ERR_OK THEN w12 ELSE
  Local([w13 \in {IF test THEN TestUARTConnection(w12, u) ELSE w12} |->
    IF w13.err # ERR_OK THEN w13 ELSE
  Local([w14 \in {IF flow
                    THEN __SC16IS7XX_SetControlFlowConfiguration(
                           AtStep(w13, "SetControlFlow"), u, ConfHardFlow(conf),
                           ConfSoftFlow(conf), ConfSpecialChar(conf),
                           ConfUseAddressChar(conf))
                    ELSE w13} |->
    IF w14.err # ERR_OK THEN w14 ELSE
  Local([w15 \in {SC16IS7XX_ModifyRegister(AtStep(w14, "DisableTCRTLR"), channel,
                                           RegSC16IS7XX_MCR, 0, 4)} |->
    IF w15.err # ERR_OK THEN w15
    ELSE SC16IS7XX_ConfigureInterrupt(AtStep(w15, "ConfigureInterrupt"), u, conf.Interrupts)
  ])])])])])])])])])])])])])])])])

\* =========================================================================
\* Device initialization
\* =========================================================================
\* The chip does not acknowledge the write of the software reset bit on the
\* I2C bus: the data NACK of that write is a success.
SC16IS7XX_SoftResetDevice(w) ==
  Local([w1 \in {SC16IS7XX_WriteRegister(w, SC16IS7XX_NO_CHANNEL, RegSC16IS7XX_IOControl,
                                         SC16IS7XX_IOCTRL_SOFTWARE_RESET)} |->
    IF w1.err = ERR__I2C_NACK_DATA THEN [w1 EXCEPT !.err = ERR_OK] ELSE w1])

\* A communication test that compares only the second read back.
CommTestOfLastValueOnly(w) ==
  Local([w1 \in {SC16IS7XX_WriteRegister(w, SC16IS7XX_NO_CHANNEL, RegSC16IS7XX_SPR, 85)} |->
    IF w1.err # ERR_OK THEN w1 ELSE
  Local([w2 \in {SC16IS7XX_ReadRegister(w1, SC16IS7XX_NO_CHANNEL, RegSC16IS7XX_SPR)} |->
    IF w2.err # ERR_OK THEN w2 ELSE
  Local([w3 \in {SC16IS7XX_WriteRegister(w2, SC16IS7XX_NO_CHANNEL, RegSC16IS7XX_SPR, 170)} |->
    IF w3.err # ERR_OK THEN w3 ELSE
  Local([w4 \in {SC16IS7XX_ReadRegister(w3, SC16IS7XX_NO_CHANNEL, RegSC16IS7XX_SPR)} |->
    IF w4.err # ERR_OK THEN w4
    ELSE IF w4.val[1] # 170 THEN [w4 EXCEPT !.err = ERR__BAD_DATA]
    ELSE w4])])])])

SC16IS7XX_HardwareCommTest(w) ==
  Local([w1 \in {SC16IS7XX_WriteRegister(w, SC16IS7XX_NO_CHANNEL, RegSC16IS7XX_SPR, 85)} |->
    IF w1.err # ERR_OK THEN w1 ELSE
  Local([w2 \in {SC16IS7XX_ReadRegister(w1, SC16IS7XX_NO_CHANNEL, RegSC16IS7XX_SPR)} |->
    IF w2.err # ERR_OK THEN w2
    ELSE IF w2.val[1] # 85 THEN [w2 EXCEPT !.err = ERR__BAD_DATA] ELSE
  Local([w3 \in {SC16IS7XX_WriteRegister(w2, SC16IS7XX_NO_CHANNEL, RegSC16IS7XX_SPR, 170)} |->
    IF w3.err # ERR_OK THEN w3 ELSE
  Local([w4 \in {SC16IS7XX_ReadRegister(w3, SC16IS7XX_NO_CHANNEL, RegSC16IS7XX_SPR)} |->
    IF w4.err # ERR_OK THEN w4
    ELSE IF w4.val[1] # 170 THEN [w4 EXCEPT !.err = ERR__BAD_DATA]
    ELSE w4])])])])

SC16IS7XX_ConfigureGPIOs(w, pinsDirection, pinsLevel, pinsInterruptEnable) ==
  IF ~w.comp.HAVE_GPIO THEN Ret(w, ERR__NOT_SUPPORTED) ELSE
  Local([w1 \in {SC16IS7XX_WriteRegister(w, SC16IS7XX_NO_CHANNEL, RegSC16IS7XX_IODir,
                                         pinsDirection)} |->
    IF w1.err # ERR_OK THEN w1 ELSE
  Local([w2 \in {SC16IS7XX_WriteRegister(w1, SC16IS7XX_NO_CHANNEL, RegSC16IS7XX_IOState,
                                         pinsLevel)} |->
    IF w2.err # ERR_OK THEN w2
    ELSE SC16IS7XX_WriteRegister([w2 EXCEPT !.comp.GPIOsOutState = pinsLevel],
                                 SC16IS7XX_NO_CHANNEL, RegSC16IS7XX_IOIntEna,
                                 pinsInterruptEnable)])])

\* The direction given (1: input) is inverted for the chip.
SC16IS7XX_SetGPIOPinsDirection(w, pinsDirection, pinsChangeMask) ==
  IF ~w.comp.HAVE_GPIO THEN Ret(w, ERR__NOT_SUPPORTED)
  ELSE SC16IS7XX_ModifyRegister(w, SC16IS7XX_NO_CHANNEL, RegSC16IS7XX_IODir,
                                BitNot(pinsDirection), pinsChangeMask)

\* w.initErr is what the initialization of the interface returns and w.ready
\* whether the chip acknowledges its I2C address.
SC16IS7XX_IsReady(w) == w.ready

InterfaceInit(w) ==
  IF w.comp.Interface = SC16IS7XX_INTERFACE_I2C
    THEN IF w.comp.InterfaceClockSpeed > w.comp.I2C_CLOCK_MAX
           THEN Ret(w, ERR__I2C_CONFIG_ERROR)
         ELSE IF w.initErr # ERR_OK THEN Ret(w, w.initErr)
         ELSE IF ~SC16IS7XX_IsReady(w) THEN Ret(w, ERR__NO_DEVICE_DETECTED)
         ELSE Ret(w, ERR_OK)
    ELSE IF w.comp.InterfaceClockSpeed > w.comp.SPI_CLOCK_MAX
           THEN Ret(w, ERR__SPI_CONFIG_ERROR)
         ELSE Ret(w, w.initErr)

\* pConf is <<>> for a null pointer and <<config>> otherwise.
Init_SC16IS7XX(w, pConf) ==
  IF w.comp.DevicePN >= SC16IS7XX_PN_COUNT THEN Ret(w, ERR__UNKNOWN_DEVICE)
  ELSE IF w.comp.XtalFreq # 0 /\ w.comp.XtalFreq > SC16IS7XX_XTAL_FREQ_MAX
    THEN Ret(w, ERR__FREQUENCY_ERROR)
  ELSE IF w.comp.OscFreq # 0 /\ w.comp.OscFreq > SC16IS7XX_OSC_FREQ_MAX
    THEN Ret(w, ERR__FREQUENCY_ERROR)
  ELSE IF w.comp.XtalFreq = 0 /\ w.comp.OscFreq = 0 THEN Ret(w, ERR__CONFIGURATION)
  ELSE
  Local([w1 \in {InterfaceInit(w)} |->
    IF w1.err # ERR_OK THEN w1 ELSE
  Local([w2 \in {SC16IS7XX_SoftResetDevice(AtStep(w1, "SoftResetDevice"))} |->
    IF w2.err # ERR_OK THEN w2 ELSE
  Local([w3 \in {SC16IS7XX_HardwareCommTest(AtStep(w2, "HardwareCommTest"))} |->
    IF w3.err = ERR__BAD_DATA THEN Ret(w3, ERR__NO_DEVICE_DETECTED)
    ELSE IF w3.err # ERR_OK THEN w3
    ELSE IF w3.comp.HAVE_GPIO /\ Len(pConf) > 0
      THEN SC16IS7XX_ConfigureGPIOs(AtStep(w3, "ConfigureGPIOs"),
                                    pConf[1].StartupPinsDirection, pConf[1].StartupPinsLevel,
                                    pConf[1].PinsInterruptEnable)
      ELSE Ret(w3, ERR_OK)])])])

\* =========================================================================
\* Device, UART objects and configurations
\* =========================================================================
\* SC16IS752_EXT2: 1.8432 MHz crystal, two UARTs, no IrDA 1/4 ratio
SC16IS752_EXT2 ==
  [XtalFreq |-> 1843200, OscFreq |-> 0, IrDA_1_4_RATIO |-> FALSE, HAVE_2_UARTS |-> TRUE,
   HAVE_GPIO |-> TRUE, Interface |-> SC16IS7XX_INTERFACE_SPI,
   DevicePN |-> SC16IS752, InterfaceClockSpeed |-> 4000000,
   I2C_CLOCK_MAX |-> SC16IS7XX_I2C_CLOCK_MAX, SPI_CLOCK_MAX |-> SC16IS7XX_SPI_CLOCK_MAX,
   GPIOsOutState |-> 0]

HardFlowDefault ==
  [HoldAt |-> 8, ResumeAt |-> 4, RTSpinControl |-> "AUTOMATIC", CTSpinControl |-> "AUTOMATIC"]

SoftFlowDefault ==
  [HoldAt |-> 8, ResumeAt |-> 4, Config |-> 5, XonAnyChar |-> TRUE,
   Xon1 |-> 17, Xon2 |-> 18, Xoff1 |-> 19, Xoff2 |-> 20]

\* RS-232, 115200-8-N-1, no control flow, FIFOs used, Rx FIFO interrupt
UART_EXT2_RS232config ==
  [UARTtype |-> "RS232", UARTwordLen |-> 3, UARTparity |-> 0, UARTstopBit |-> 0,
   UARTbaudrate |-> 115200, UARTbaudrateError |-> "Baudrate_UART_EXT2",
   RS232 |-> [ControlFlowType |-> "NO_CONTROL_FLOW", HardFlowControl |-> HardFlowDefault,
              SoftFlowControl |-> SoftFlowDefault],
   RS485 |-> [RTScontrol |-> "AUTO_RTS", UseHardwareControlFlow |-> FALSE,
              RTSoutInversion |-> FALSE, AutoRS485mode |-> "AUTO_ADDRESS_DETECT",
              AddressChar |-> 66, HardFlowControl |-> HardFlowDefault],
   IrDA |-> [IrDAmode |-> "SIR_3_16_RATIO", UseSoftwareControlFlow |-> FALSE,
             SoftFlowControl |-> SoftFlowDefault],
   Modem |-> [UseHardwareControlFlow |-> FALSE, HardFlowControl |-> HardFlowDefault],
   UseSpecialChar |-> FALSE, SpecialChar |-> 0,
   DisableTransmitter |-> FALSE, DisableReceiver |-> FALSE,
   UseFIFOs |-> TRUE, TxTrigLvl |-> 8, RxTrigLvl |-> 4, Interrupts |-> 1]

\* The configurations a caller initializes a UART with: the test program's
\* RS-232 one, RS-232 9600-7-E-2 with hardware flow control, RS-232 with
\* software flow control, and RS-485 with automatic address detection.
Configs ==
  { UART_EXT2_RS232config,
    [UART_EXT2_RS232config EXCEPT !.UARTwordLen = 2, !.UARTparity = 3, !.UARTstopBit = 2,
                                  !.UARTbaudrate = 9600, !.Interrupts = 5,
                                  !.RS232.ControlFlowType = "HARDWARE_CONTROL_FLOW"],
    [UART_EXT2_RS232config EXCEPT !.RS232.ControlFlowType = "SOFTWARE_CONTROL_FLOW"],
    [UART_EXT2_RS232config EXCEPT !.UARTtype = "RS485", !.UARTparity = 5] }

NullBuffer == [pData |-> <<>>, BufferSize |-> 0, PosIn |-> 0, PosOut |-> 0, IsFull |-> FALSE]

NewBuffer(size) ==
  [pData |-> [i \in 1..size |-> 0], BufferSize |-> size, PosIn |-> 0, PosOut |-> 0,
   IsFull |-> FALSE]

\* UART_Chan0_EXT2 / UART_Chan1_EXT2 with the given driver configuration and
\* buffer sizes (0: no buffer)
NewUART(channel, driverConfig, txSize, rxSize) ==
  [Channel |-> channel, DriverConfig |-> driverConfig,
   TxBuffer |-> IF txSize = 0 THEN NullBuffer ELSE NewBuffer(txSize),
   RxBuffer |-> IF rxSize = 0 THEN NullBuffer ELSE NewBuffer(rxSize)]

\* =========================================================================
\* State
\* =========================================================================
VARIABLES
  dev,      \* the chip: registers and FIFOs of both channels
  uart,     \* the SC16IS7XX_UART objects, by index
  log,      \* transport calls and register-set switches of the last driver call
  ret,      \* the last driver call: its name, arguments and results
  nops,     \* number of driver calls made
  clean,    \* no transport call has failed so far
  lineFormat, \* per channel: <<LCR value>> set by the last successful InitUART, or <<>>
  hist,     \* history of the bytes moved by the transmit / receive engine
  loop,     \* the test program's RS-232 loop
  task      \* the position and the local variables of the driver calls in progress

vars == <<dev, uart, log, ret, nops, clean, lineFormat, hist, loop, task>>

\* No driver call is in progress between two steps.
NoTask == [pc |-> "none"]

\* What an uninitialized eERRORRESULT may hold: ERR_OK or anything else.
UninitializedErrors == {ERR_OK, ERR__PERIPHERAL_NOT_VALID}

\* What an uninitialized or out-of-bounds byte may hold.
UninitializedBytes == {0, 85}

\* The world a driver call starts in: fail is the set of indices of the
\* transport calls that fail, garb / garbErr the content of uninitialized
\* objects, ub what a store through a null pointer does ("store": the store
\* goes to address 0 and the call goes on, "trap": the processor faults and
\* the call does not return).  miso is the byte every read gives when the data
\* line from the chip is stuck (no chip is connected), -1 when the chip drives
\* the line.  nullDeref tells that the call has dereferenced
\* a null pointer, baudrateError is the variable *UARTbaudrateError.
WorldOf(d, ua, fail, garb, garbErr) ==
  [dev |-> d, uart |-> ua, comp |-> SC16IS752_EXT2, log |-> <<>>, ncall |-> 0,
   fail |-> fail, ferr |-> ERR__SPI_TIMEOUT, fphase |-> 1, miso |-> -1, initErr |-> ERR_OK,
   ready |-> TRUE, garb |-> garb, garbErr |-> garbErr,
   step |-> "", err |-> ERR_OK, errRet |-> ERR_OK, val |-> <<garb>>, flag |-> FALSE,
   cnt |-> 0, data |-> <<>>, lastErr |-> 0,
   ub |-> "store", nullDeref |-> FALSE, baudrateError |-> 0]

World(fail, garb, garbErr) == WorldOf(dev, uart, fail, garb, garbErr)

NoCall ==
  [op |-> "", u |-> 0, err |-> ERR_OK, step |-> "", cnt |-> 0, data |-> <<>>, lcr |-> 0,
   ier |-> 0,
   before |-> NewUART(0, 0, 0, 0)]

\* The state after a driver call op(u, ...) that ended in world w; step is
\* the step of InitUART the call ended in, lcr the line format the call was
\* asked to set (InitUART), ier the IER of the channel when the call was made.
Returned(w, op, u, lcr) ==
  /\ dev' = w.dev
  /\ uart' = w.uart
  /\ log' = w.log
  /\ ret' = [op |-> op, u |-> u, err |-> w.err, step |-> w.step, cnt |-> w.cnt,
             data |-> w.data, lcr |-> lcr,
             ier |-> dev.reg[uart[u].Channel]["IER"], before |-> uart[u]]

Return(w, op, u, lcr) ==
  /\ Returned(w, op, u, lcr)
  /\ nops' = nops + 1
  /\ clean' = (clean /\ \A i \in 1..Len(w.log) : w.log[i].ok)

\* The transport failures injected into a driver call that makes n transport
\* calls when none fails: none, or the k-th call fails.
FailSets(n) == {{}} \cup {{k} : k \in 1..n}

\* =========================================================================
\* Specification of the configuration calls
\* =========================================================================
UARTs == {0, 1}

\* accepted: the bytes TransmitData has taken from its caller; thr: the bytes
\* written to THR; rhr: the bytes read from RHR; delivered: the bytes returned
\* to the callers of the receive functions; txFull: the Tx buffer has held
\* as many bytes as its size.
NoHist ==
  [accepted |-> <<>>, thr |-> <<>>, rhr |-> <<>>, delivered |-> <<>>, txFull |-> FALSE]

NoLoop == [pc |-> "idle"]

Init ==
  /\ dev = ResetDevice
  /\ uart = [u \in UARTs |-> IF u = 0 THEN NewUART(SC16IS7XX_CHANNEL_A, 0, 2, 2)
                             ELSE NewUART(SC16IS7XX_CHANNEL_B, 131, 0, 0)]
  /\ log = <<>>
  /\ ret = NoCall
  /\ nops = 0
  /\ clean = TRUE
  /\ lineFormat = [c \in Channels |-> <<>>]
  /\ hist = NoHist
  /\ loop = NoLoop
  /\ task = NoTask

\* The caller stops at the first driver call that returns an error.
CanCall == nops < MaxOps /\ ret.err = ERR_OK

InitUART ==
  /\ CanCall
  /\ \E u \in UARTs, conf \in Configs, garb \in UninitializedBytes,
        garbErr \in UninitializedErrors :
       \E fail \in FailSets(SC16IS7XX_InitUART(World({}, garb, garbErr), u, conf).ncall) :
         \E w \in {SC16IS7XX_InitUART(World(fail, garb, garbErr), u, conf)} :
           /\ Return(w, "InitUART", u, LineFormatLCR(conf))
           /\ lineFormat' = [lineFormat EXCEPT ![uart[u].Channel] =
                               IF w.err = ERR_OK THEN <<LineFormatLCR(conf)>> ELSE <<>>]
  /\ UNCHANGED <<task, hist, loop>>

EnableEnhancedFunctions ==
  /\ CanCall
  /\ \E u \in UARTs, garb \in UninitializedBytes, fail \in FailSets(5) :
       \E w \in {SC16IS7XX_EnableEnhancedFunctions(World(fail, garb, ERR_OK),
                                                   uart[u].Channel)} :
         Return(w, "EnableEnhancedFunctions", u, 0)
  /\ UNCHANGED <<task, lineFormat, hist, loop>>

SetUARTBaudRate ==
  /\ CanCall
  /\ \E u \in UARTs, conf \in Configs, garb \in UninitializedBytes :
       \E fail \in FailSets(SC16IS7XX_SetUARTBaudRate(World({}, garb, ERR_OK), u, conf).ncall) :
         \E w \in {SC16IS7XX_SetUARTBaudRate(World(fail, garb, ERR_OK), u, conf)} :
           Return(w, "SetUARTBaudRate", u, 0)
  /\ UNCHANGED <<task, lineFormat, hist, loop>>

ConfigureInterrupt ==
  /\ CanCall
  /\ \E u \in UARTs, flags \in {1, 3}, fail \in FailSets(1) :
       \E w \in {SC16IS7XX_ConfigureInterrupt(World(fail, 0, ERR_OK), u, flags)} :
         Return(w, "ConfigureInterrupt", u, 0)
  /\ UNCHANGED <<task, lineFormat, hist, loop>>

Next == InitUART \/ EnableEnhancedFunctions \/ SetUARTBaudRate \/ ConfigureInterrupt

Spec == Init /\ [][Next]_vars

\* =========================================================================
\* Properties of the configuration calls
\* =========================================================================
\* C1: every SetRegisterAccess that switched the register set is followed,
\* before the driver call returns and before any other switch, by exactly
\* one ReturnAccessToGeneralRegister - on every exit path, the paths taken
\* after a failed transport call included.
C1_ReturnAccessOncePerSetAccess ==
  \A i \in 1..Len(log) :
    (log[i].op = "SetAccess" /\ log[i].ok) =>
      LET later == {j \in (i + 1)..Len(log) : log[j].op = "SetAccess"}
          stop == IF later = {} THEN Len(log) + 1
                  ELSE CHOOSE j \in later : \A k \in later : j <= k
      IN Cardinality({j \in (i + 1)..(stop - 1) : log[j].op = "ReturnAccess"}) = 1

\* C2: as long as no transport call has failed, LCR selects the general
\* register set (bit 7 clear, not 0xBF) whenever a driver call has returned,
\* every return from a scoped access leaves LCR bits 6..0 as they were
\* before the access, and the line format programmed by the last successful
\* InitUART is still in LCR.
C2_GeneralSetAndLineFormatKept ==
  clean =>
    /\ \A c \in Channels :
         /\ Bit(dev.reg[c]["LCR"], 7) = 0
         /\ dev.reg[c]["LCR"] # SC16IS7XX_LCR_VALUE_SET_ENHANCED_FEATURE_REGISTER
         /\ lineFormat[c] # <<>> => dev.reg[c]["LCR"] = lineFormat[c][1]
    /\ \A i \in 1..Len(log) :
         log[i].op = "ReturnAccess" =>
           \E j \in 1..(i - 1) :
             /\ log[j].op = "SetAccess"
             /\ \A k \in (j + 1)..(i - 1) : log[k].op # "SetAccess"
             /\ log[i].val[1] % 128 = log[j].val[1] % 128

\* A baud rate set on a channel that InitUART has configured, without any
\* transport failure: the scoped access of the baud rate step has returned
\* and the line format of the initialization is a programmed one.
C2_Witness ==
  /\ clean
  /\ ret.op = "SetUARTBaudRate"
  /\ ret.err = ERR_OK
  /\ \E i \in 1..Len(log) : log[i].op = "ReturnAccess"
  /\ lineFormat[uart[ret.u].Channel] # <<>>
  /\ lineFormat[uart[ret.u].Channel][1] # ResetRegisters["LCR"]

\* C3 as stated: in InitUART, the write of 0x00 to IER and the write of EFCR
\* that disables the transmitter and the receiver both precede every write
\* of a baud rate register (MCR in the baud rate step, DLL, DLH) and every
\* write of LCR.
C3_MaskAndDisableBeforeAnyLCRWrite ==
  ret.op = "InitUART" =>
    \A i \in 1..Len(log) :
      (/\ log[i].op = "W"
       /\ \/ log[i].reg \in {"DLL", "DLH", "LCR"}
          \/ log[i].reg = "MCR" /\ log[i].step = "SetUARTBaudRate") =>
        /\ \E j \in 1..(i - 1) :
             log[j].op = "W" /\ log[j].reg = "IER" /\ log[j].val = <<0>> /\ log[j].ok
        /\ \E k \in 1..(i - 1) :
             /\ log[k].op = "W" /\ log[k].reg = "EFCR" /\ log[k].ok
             /\ BitAnd(log[k].val[1], 6) = 6

\* C3 amended: the same, for every write of a baud rate register and every
\* write of LCR except the register set switch and its return made by the
\* first step, the enabling of the enhanced functions.
C3_MaskAndDisableBeforeFormatWrites ==
  ret.op = "InitUART" =>
    \A i \in 1..Len(log) :
      (/\ log[i].op = "W"
       /\ \/ log[i].reg \in {"DLL", "DLH"}
          \/ log[i].reg = "LCR" /\ log[i].step # "EnableEnhancedFunctions"
          \/ log[i].reg = "MCR" /\ log[i].step = "SetUARTBaudRate") =>
        /\ \E j \in 1..(i - 1) :
             log[j].op = "W" /\ log[j].reg = "IER" /\ log[j].val = <<0>> /\ log[j].ok
        /\ \E k \in 1..(i - 1) :
             /\ log[k].op = "W" /\ log[k].reg = "EFCR" /\ log[k].ok
             /\ BitAnd(log[k].val[1], 6) = 6

\* An initialization that wrote the line format, the clock divider and both
\* halves of the divisor.
C3_Witness ==
  /\ ret.op = "InitUART"
  /\ \E i \in 1..Len(log) :
       log[i].op = "W" /\ log[i].reg = "LCR" /\ log[i].step = "SetUARTConfiguration"
  /\ \E i \in 1..Len(log) :
       log[i].op = "W" /\ log[i].reg = "MCR" /\ log[i].step = "SetUARTBaudRate"
  /\ \E i \in 1..Len(log) : log[i].op = "W" /\ log[i].reg = "DLL" /\ log[i].ok
  /\ \E i \in 1..Len(log) : log[i].op = "W" /\ log[i].reg = "DLH" /\ log[i].ok

\* C4 as stated: whenever InitUART returns an error, IER of its channel is
\* 0x00.
C4_AbortLeavesInterruptsMasked ==
  (ret.op = "InitUART" /\ ret.err # ERR_OK) => dev.reg[uart[ret.u].Channel]["IER"] = 0

\* C4 amended: IER is 0x00 when InitUART aborts in a step after its write of
\* 0x00 to IER and not after the write that restores the saved IER; an abort
\* in an earlier or in a later step leaves IER as it was when InitUART was
\* called.
C4_AbortWhileMaskedLeavesIERZero ==
  (ret.op = "InitUART" /\ ret.err # ERR_OK) =>
    IF ret.step \in {"DisableTxRx", "ResetFIFO", "DisableControlFlow", "SetUARTConfiguration",
                     "SetUARTBaudRate", "ConfigureFIFOs", "RestoreInterrupts"}
    THEN dev.reg[uart[ret.u].Channel]["IER"] = 0
    ELSE dev.reg[uart[ret.u].Channel]["IER"] = ret.ier

\* InitUART, called with interrupts enabled, aborts in the baud rate step.
C4_Witness ==
  /\ ret.op = "InitUART"
  /\ ret.err # ERR_OK
  /\ ret.step = "SetUARTBaudRate"
  /\ ret.ier # 0
  /\ dev.reg[uart[ret.u].Channel]["IER"] = 0

\* C5: in InitUART the first transport call that fails ends the
\* initialization: no register is written after it and its error is the
\* error InitUART returns.
C5_FirstFailureAborts ==
  ret.op = "InitUART" =>
    \A i \in 1..Len(log) :
      (log[i].op \in {"R", "W"} /\ ~log[i].ok) =>
        /\ ret.err = ERR__SPI_TIMEOUT
        /\ \A j \in (i + 1)..Len(log) : log[j].op # "W"

\* C13: in InitUART every transport call of the step that programs the
\* requested control flow comes after every transport call of the loopback
\* test, and when the test runs inside InitUART the EFR of the channel has
\* the RTS and CTS flow control bits and the four software flow control bits
\* clear and MCR has the Xon Any bit clear, at the start of the test and in
\* every MCR value the test writes.
C13_TestRunsBeforeFlowControl ==
  ret.op = "InitUART" =>
    \A i \in 1..Len(log) :
      /\ log[i].op = "CommTest" =>
           /\ BitAnd(log[i].val[1], 207) = 0
           /\ Bit(log[i].val[2], 5) = 0
      /\ (log[i].step = "UARTCommTest" /\ log[i].op = "W" /\ log[i].reg = "MCR") =>
           Bit(log[i].val[1], 5) = 0
      /\ log[i].step = "UARTCommTest" =>
           \A j \in 1..(i - 1) : log[j].step # "SetControlFlow"

\* An initialization of a channel that had software flow control and Xon Any
\* enabled: it ran the loopback test and then programmed a control flow.
C13_Witness ==
  /\ ret.op = "InitUART"
  /\ ret.err = ERR_OK
  /\ \E i \in 1..Len(log) :
       /\ log[i].op = "R" /\ log[i].reg = "MCR" /\ log[i].step = "DisableControlFlow"
       /\ Bit(log[i].val[1], 5) = 1
  /\ \E i \in 1..Len(log) : log[i].op = "CommTest"
  /\ \E i \in 1..Len(log) :
       log[i].op = "W" /\ log[i].reg = "EFR" /\ log[i].step = "SetControlFlow"

\* =========================================================================
\* Specification of the transmit / receive engine
\* =========================================================================
\* UART0_EXT2 transmits on channel A, whose Tx line is wired to the Rx line of
\* channel B, where UART1_EXT2 receives. Both are in burst mode, with a Tx
\* and an Rx buffer each. The message bytes are 1, 2, 3, ...
UART0_EXT2 == 0
UART1_EXT2 == 1

\* The data the buffer holds, oldest byte first.
RingCount(pBuf) ==
  IF pBuf.IsFull THEN pBuf.BufferSize
  ELSE (pBuf.PosIn + pBuf.BufferSize - pBuf.PosOut) % pBuf.BufferSize

RingContent(pBuf) ==
  [i \in 1..RingCount(pBuf) |-> pBuf.pData[((pBuf.PosOut + i - 1) % pBuf.BufferSize) + 1]]

\* The bytes moved by the successful transfers op of register reg, in order.
LogBytes(lg, op, reg) ==
  LET f[i \in 0..Len(lg)] ==
        IF i = 0 THEN <<>>
        ELSE IF lg[i].op = op /\ lg[i].reg = reg /\ lg[i].ok THEN f[i - 1] \o lg[i].val
        ELSE f[i - 1]
  IN f[Len(lg)]

\* Both UARTs initialized one after the other, as the test program does.
InitBothUARTs(d, ua) ==
  Local([w0 \in {SC16IS7XX_InitUART(WorldOf(d, ua, {}, 0, ERR_OK), UART0_EXT2,
                                    UART_EXT2_RS232config)} |->
    SC16IS7XX_InitUART([w0 EXCEPT !.log = <<>>, !.ncall = 0], UART1_EXT2,
                       UART_EXT2_RS232config)])

BuffersOfSize(size) ==
  [u \in UARTs |-> NewUART(IF u = UART0_EXT2 THEN SC16IS7XX_CHANNEL_A ELSE SC16IS7XX_CHANNEL_B,
                           0, size, size)]

InitBuf ==
  /\ \E size \in 1..MaxBuf :
       \E w \in {InitBothUARTs(ResetDevice, BuffersOfSize(size))} :
         dev = w.dev /\ uart = w.uart
  /\ log = <<>>
  /\ ret = NoCall
  /\ nops = 0
  /\ clean = TRUE
  /\ lineFormat = [c \in Channels |-> <<>>]
  /\ hist = NoHist
  /\ loop = NoLoop
  /\ task = NoTask

\* The history stops growing once more bytes than the message has were
\* written to THR or read from RHR.
BufCanCall == Len(hist.thr) <= MaxMsg /\ Len(hist.rhr) <= MaxMsg

\* The history after a call of the transmit side that ended in world w and
\* was given data.
HistAfterTransmit(w, data) ==
  [hist EXCEPT !.accepted = @ \o SubSeq(data, 1, w.cnt),
               !.thr = @ \o LogBytes(w.log, "W", "THR"),
               !.txFull = @ \/ (RingCount(uart[UART0_EXT2].TxBuffer) + w.cnt
                                  >= uart[UART0_EXT2].TxBuffer.BufferSize)]

\* The history after a call of the receive side that ended in world w.
HistAfterReceive(w) ==
  [hist EXCEPT !.rhr = @ \o LogBytes(w.log, "R", "RHR"),
               !.delivered = @ \o SubSeq(w.data, 1, w.cnt)]

TransmitData ==
  /\ BufCanCall
  /\ \E n \in 1..MaxBuf, garb \in UninitializedBytes :
       \E data \in {[i \in 1..n |-> Len(hist.accepted) + i]} :
         \E w \in {SC16IS7XX_TransmitData(World({}, garb, ERR_OK), UART0_EXT2, data)} :
           /\ Len(hist.accepted) + n <= MaxMsg
           /\ Returned(w, "TransmitData", UART0_EXT2, 0)
           /\ hist' = HistAfterTransmit(w, data)
  /\ UNCHANGED <<task, nops, clean, lineFormat, loop>>

FlushTxBufferToFIFO ==
  /\ BufCanCall
  /\ \E garb \in UninitializedBytes :
       \E w \in {SC16IS7XX_FlushTxBufferToFIFO(World({}, garb, ERR_OK), UART0_EXT2)} :
         /\ Returned(w, "FlushTxBufferToFIFO", UART0_EXT2, 0)
         /\ hist' = HistAfterTransmit(w, <<>>)
  /\ UNCHANGED <<task, nops, clean, lineFormat, loop>>

ReceiveData ==
  /\ BufCanCall
  /\ \E n \in 1..MaxBuf :
       \E w \in {SC16IS7XX_ReceiveData(World({}, 0, ERR_OK), UART1_EXT2,
                                       [i \in 1..n |-> 0])} :
         /\ Returned(w, "ReceiveData", UART1_EXT2, 0)
         /\ hist' = HistAfterReceive(w)
  /\ UNCHANGED <<task, nops, clean, lineFormat, loop>>

\* A ReceiveChar that finds no character polls until one arrives.
ReceiveChar ==
  /\ BufCanCall
  /\ \E w \in {SC16IS7XX_ReceiveChar(World({}, 0, ERR_OK), UART1_EXT2)} :
       /\ w.err # NO_RETURN
       /\ Returned(w, "ReceiveChar", UART1_EXT2, 0)
       /\ hist' = HistAfterReceive(w)
  /\ UNCHANGED <<task, nops, clean, lineFormat, loop>>

RetrieveRxFIFOtoBuffer ==
  /\ BufCanCall
  /\ \E w \in {SC16IS7XX_RetrieveRxFIFOtoBuffer(World({}, 0, ERR_OK), UART1_EXT2)} :
       /\ Returned(w, "RetrieveRxFIFOtoBuffer", UART1_EXT2, 0)
       /\ hist' = HistAfterReceive(w)
  /\ UNCHANGED <<task, nops, clean, lineFormat, loop>>

\* The transmitter of a channel sends one character.
Transmitter ==
  /\ \E c \in Channels : HwCanShift(dev, c) /\ dev' = HwShift(dev, c)
  /\ UNCHANGED <<task, uart, log, ret, nops, clean, lineFormat, hist, loop>>

NextBuf ==
  \/ TransmitData
  \/ FlushTxBufferToFIFO
  \/ ReceiveData
  \/ ReceiveChar
  \/ RetrieveRxFIFOtoBuffer
  \/ Transmitter

SpecBuf == InitBuf /\ [][NextBuf]_vars

\* =========================================================================
\* Properties of the transmit / receive engine
\* =========================================================================
\* C6: the bytes returned to the callers of ReceiveData, ReceiveChar and
\* RetrieveRxFIFOtoBuffer (the first *actuallyReceived bytes of each call, in
\* order) followed by the bytes still in the Rx buffer are exactly the bytes
\* read from RHR: nothing is lost, duplicated or reordered.
C6_DeliveredThenBufferedIsReadFromRHR ==
  hist.delivered \o RingContent(uart[UART1_EXT2].RxBuffer) = hist.rhr

\* C7: as long as the Tx buffer has never held as many bytes as its size, the
\* bytes written to THR followed by the bytes still in the Tx buffer are
\* exactly the bytes TransmitData accepted, in order, each once.
C7_WrittenThenBufferedIsAccepted ==
  ~hist.txFull =>
    hist.thr \o RingContent(uart[UART0_EXT2].TxBuffer) = hist.accepted

\* C9 as stated: a TransmitData that brings the Tx buffer to its capacity
\* leaves IsFull set and PosIn = PosOut; when exactly one byte is then
\* drained from the full buffer, IsFull is clear and
\* PosIn = (PosOut + 1) mod BufferSize.
C9_OneByteDrainedLeavesInAheadOfOut ==
  LET before == ret.before.TxBuffer
      after == uart[UART0_EXT2].TxBuffer
      drained == Len(LogBytes(log, "W", "THR"))
  IN /\ (ret.op = "TransmitData" /\ drained = 0
           /\ RingCount(before) + ret.cnt = before.BufferSize) =>
          (after.IsFull /\ after.PosIn = after.PosOut)
     /\ (ret.op \in {"TransmitData", "FlushTxBufferToFIFO"} /\ before.IsFull /\ drained = 1) =>
          /\ before.PosIn = before.PosOut
          /\ ~after.IsFull
          /\ after.PosIn = (after.PosOut + 1) % after.BufferSize

\* C9 amended: the same, except that after the drain of one byte it is the
\* Out position that is one ahead: PosOut = (PosIn + 1) mod BufferSize.
C9_OneByteDrainedLeavesOutAheadOfIn ==
  LET before == ret.before.TxBuffer
      after == uart[UART0_EXT2].TxBuffer
      drained == Len(LogBytes(log, "W", "THR"))
  IN /\ (ret.op = "TransmitData" /\ drained = 0
           /\ RingCount(before) + ret.cnt = before.BufferSize) =>
          (after.IsFull /\ after.PosIn = after.PosOut)
     /\ (ret.op \in {"TransmitData", "FlushTxBufferToFIFO"} /\ before.IsFull /\ drained = 1) =>
          /\ before.PosIn = before.PosOut
          /\ ~after.IsFull
          /\ after.PosOut = (after.PosIn + 1) % after.BufferSize

\* A flush has drained exactly one byte from a full Tx buffer of three bytes.
C9_Witness ==
  /\ ret.op = "FlushTxBufferToFIFO"
  /\ ret.before.TxBuffer.IsFull
  /\ ret.before.TxBuffer.BufferSize = 3
  /\ Len(LogBytes(log, "W", "THR")) = 1
  /\ ~uart[UART0_EXT2].TxBuffer.IsFull

\* C10: in every buffer PosIn and PosOut are below BufferSize and IsFull
\* holds only when PosIn = PosOut; a flush that finds room in the Tx FIFO
\* writes nothing to THR exactly when PosIn = PosOut and IsFull is clear, and
\* a ReceiveData that finds the Rx FIFO empty leaves the Rx buffer as it
\* is exactly when PosIn = PosOut and IsFull is clear.
C10_BufferPositionsInvariant ==
  /\ \A u \in UARTs :
       \A pBuf \in {uart[u].TxBuffer, uart[u].RxBuffer} :
         ~BufferIsNull(pBuf) =>
           /\ pBuf.PosIn < pBuf.BufferSize
           /\ pBuf.PosOut < pBuf.BufferSize
           /\ pBuf.IsFull => pBuf.PosIn = pBuf.PosOut
  /\ (ret.op = "FlushTxBufferToFIFO" /\ LogBytes(log, "R", "TXLVL")[1] > 0) =>
       ((LogBytes(log, "W", "THR") = <<>>)
          <=> (ret.before.TxBuffer.PosIn = ret.before.TxBuffer.PosOut
                 /\ ~ret.before.TxBuffer.IsFull))
  /\ (ret.op = "ReceiveData" /\ LogBytes(log, "R", "RXLVL")[1] = 0) =>
       ((uart[UART1_EXT2].RxBuffer = ret.before.RxBuffer)
          <=> (ret.before.RxBuffer.PosIn = ret.before.RxBuffer.PosOut
                 /\ ~ret.before.RxBuffer.IsFull))

\* The positions of the Tx buffer have wrapped, the Rx buffer is full, and a
\* flush that found room in the Tx FIFO and the Tx buffer empty has written
\* nothing.
C10_Witness ==
  /\ ret.op = "FlushTxBufferToFIFO"
  /\ LogBytes(log, "R", "TXLVL")[1] > 0
  /\ LogBytes(log, "W", "THR") = <<>>
  /\ uart[UART0_EXT2].TxBuffer.PosIn = uart[UART0_EXT2].TxBuffer.PosOut
  /\ uart[UART0_EXT2].TxBuffer.PosIn > 0
  /\ uart[UART1_EXT2].RxBuffer.IsFull
  /\ uart[UART1_EXT2].RxBuffer.BufferSize > 1

\* =========================================================================
\* Specification of the RS-232 basic test of the test program
\* =========================================================================
\* RS232_TEST is the message 1, 2, ..., RS232_TEST_LENGTH; RxBufferTests has
\* room for more than the longest message.
RS232_TEST(length) == [i \in 1..length |-> i]

TEST_RECEIVE_BUFFER_LENGTH == MaxMsg + 1

InitLoop ==
  /\ \E size \in 1..MaxBuf :
       \E w \in {InitBothUARTs(ResetDevice, BuffersOfSize(size))} :
         dev = w.dev /\ uart = w.uart
  /\ log = <<>>
  /\ ret = NoCall
  /\ nops = 0
  /\ clean = TRUE
  /\ lineFormat = [c \in Channels |-> <<>>]
  /\ hist = NoHist
  /\ \E length \in 1..MaxMsg :
       loop = [pc |-> "while", RS232_TEST_LENGTH |-> length, CurrentCharToSend |-> 0,
               CurrentCharReceived |-> 0,
               RxBufferTests |-> [i \in 1..TEST_RECEIVE_BUFFER_LENGTH |-> 0]]
  /\ task = NoTask

\* while ((CurrentCharToSend < RS232_TEST_LENGTH) || (CurrentCharReceived < RS232_TEST_LENGTH))
LoopWhile ==
  /\ loop.pc = "while"
  /\ loop' = [loop EXCEPT !.pc = IF \/ loop.CurrentCharToSend < loop.RS232_TEST_LENGTH
                                    \/ loop.CurrentCharReceived < loop.RS232_TEST_LENGTH
                                 THEN "send" ELSE "done"]
  /\ UNCHANGED <<task, dev, uart, log, ret, nops, clean, lineFormat, hist>>

\* "Send data": TransmitData of the remaining characters, if any
LoopSend ==
  /\ loop.pc = "send"
  /\ IF loop.RS232_TEST_LENGTH - loop.CurrentCharToSend > 0
       THEN \E garb \in UninitializedBytes :
              \E w \in {SC16IS7XX_TransmitData(
                          World({}, garb, ERR_OK), UART0_EXT2,
                          SubSeq(RS232_TEST(loop.RS232_TEST_LENGTH),
                                 loop.CurrentCharToSend + 1, loop.RS232_TEST_LENGTH))} :
                /\ Returned(w, "TransmitData", UART0_EXT2, 0)
                /\ loop' = [loop EXCEPT !.pc = "receive", !.CurrentCharToSend = @ + w.cnt]
       ELSE /\ loop' = [loop EXCEPT !.pc = "receive"]
            /\ UNCHANGED <<task, dev, uart, log, ret>>
  /\ UNCHANGED <<task, nops, clean, lineFormat, hist>>

\* "Receive data": ReceiveData into the rest of RxBufferTests
LoopReceive ==
  /\ loop.pc = "receive"
  /\ \E w \in {SC16IS7XX_ReceiveData(
                 World({}, 0, ERR_OK), UART1_EXT2,
                 SubSeq(loop.RxBufferTests, loop.CurrentCharReceived + 1,
                        TEST_RECEIVE_BUFFER_LENGTH))} :
       /\ Returned(w, "ReceiveData", UART1_EXT2, 0)
       /\ loop' = [loop EXCEPT !.pc = "while",
                               !.CurrentCharReceived = @ + w.cnt,
                               !.RxBufferTests = BufStore(@, loop.CurrentCharReceived, w.data)]
  /\ UNCHANGED <<task, nops, clean, lineFormat, hist>>

NextLoop == LoopWhile \/ LoopSend \/ LoopReceive \/ Transmitter

\* The program runs on and the transmitter sends what is in its FIFO. The
\* two driver calls of the loop are enabled exactly while the program is at
\* them and move it on, so their weak fairness is: the program is again and
\* again somewhere else.
SpecLoop ==
  /\ InitLoop
  /\ [][NextLoop]_vars
  /\ WF_vars(LoopWhile)
  /\ WF_vars(Transmitter)
  /\ []<>(loop.pc # "send")
  /\ []<>(loop.pc # "receive")

\* C8: the loop of the RS-232 basic test ends, with the whole message sent
\* and received, and the received characters are the message.
C8_LoopEndsWithMessageReceived ==
  <>(/\ loop.pc = "done"
     /\ SubSeq(loop.RxBufferTests, 1, loop.RS232_TEST_LENGTH)
          = RS232_TEST(loop.RS232_TEST_LENGTH))

\* =========================================================================
\* Specification of the loopback test called on its own
\* =========================================================================
\* The driver configurations of a UART: burst or safe transmit, burst or safe
\* receive.
DriverConfigs ==
  {0, SC16IS7XX_DRIVER_SAFE_TX, SC16IS7XX_DRIVER_SAFE_RX,
   SC16IS7XX_DRIVER_SAFE_TX + SC16IS7XX_DRIVER_SAFE_RX}

\* Both UARTs of a chip after reset, with any driver configuration, without
\* or with ring buffers.
InitTest ==
  /\ dev = ResetDevice
  /\ \E dc \in DriverConfigs, size \in {0, MaxFifo} :
       uart = [u \in UARTs |->
                 NewUART(IF u = UART0_EXT2 THEN SC16IS7XX_CHANNEL_A ELSE SC16IS7XX_CHANNEL_B,
                         dc, size, size)]
  /\ log = <<>>
  /\ ret = NoCall
  /\ nops = 0
  /\ clean = TRUE
  /\ lineFormat = [c \in Channels |-> <<>>]
  /\ hist = NoHist
  /\ loop = NoLoop
  /\ task = NoTask

UARTCommTest ==
  /\ CanCall
  /\ \E u \in UARTs, garb \in UninitializedBytes :
       \E fail \in FailSets(SC16IS7XX_UARTCommTest(World({}, garb, ERR_OK), u).ncall) :
         \E w \in {SC16IS7XX_UARTCommTest(World(fail, garb, ERR_OK), u)} :
           /\ w.err # NO_RETURN
           /\ Return(w, "UARTCommTest", u, 0)
  /\ UNCHANGED <<task, lineFormat, hist, loop>>

NextTest == UARTCommTest

SpecTest == InitTest /\ [][NextTest]_vars

\* =========================================================================
\* Properties of the loopback test
\* =========================================================================
\* C11: whenever SC16IS7XX_UARTCommTest returns after its write of MCR that
\* enables the internal loopback - with ERR_OK, with
\* ERR__PERIPHERAL_NOT_VALID or with the error of a later transport call -
\* the loopback bit of MCR (bit 4) of the channel is clear.
C11_LoopbackClearedOnReturn ==
  (/\ ret.op = "UARTCommTest"
   /\ \E i \in 1..Len(log) :
        /\ log[i].op = "W" /\ log[i].reg = "MCR" /\ log[i].ok
        /\ Bit(log[i].val[1], 4) = 1) =>
    Bit(dev.reg[uart[ret.u].Channel]["MCR"], 4) = 0

\* C12: when no transport call fails - the chip echoes every transmitted
\* character to its receiver and reports no line status error -
\* SC16IS7XX_UARTCommTest writes 0x15 then 0x0A to THR, reads both back from
\* RHR in this order and returns ERR_OK with the loopback bit clear, whatever
\* the driver configuration and with or without ring buffers.
C12_LoopbackTestSucceeds ==
  (/\ ret.op = "UARTCommTest"
   /\ \A i \in 1..Len(log) : log[i].ok) =>
    /\ ret.err = ERR_OK
    /\ LogBytes(log, "W", "THR") = <<21, 10>>
    /\ LogBytes(log, "R", "RHR") = <<21, 10>>
    /\ Bit(dev.reg[uart[ret.u].Channel]["MCR"], 4) = 0

\* =========================================================================
\* Specification of the control flow configurator called on its own
\* =========================================================================
\* The descriptors handed to the configurator: none, the default one, one
\* with HoldAt = ResumeAt, one with HoldAt < ResumeAt; for the software
\* control flow also one that uses the Xoff2 character.
HardFlows ==
  {<<>>, <<HardFlowDefault>>, <<[HardFlowDefault EXCEPT !.HoldAt = 4]>>,
   <<[HardFlowDefault EXCEPT !.HoldAt = 2, !.CTSpinControl = "MANUAL"]>>,
   <<[HardFlowDefault EXCEPT !.HoldAt = 12, !.RTSpinControl = "MANUAL"]>>,
   <<[HardFlowDefault EXCEPT !.ResumeAt = 2, !.CTSpinControl = "MANUAL"]>>}

SoftFlows ==
  {<<>>, <<SoftFlowDefault>>, <<[SoftFlowDefault EXCEPT !.Config = 10]>>,
   <<[SoftFlowDefault EXCEPT !.ResumeAt = 8]>>,
   <<[SoftFlowDefault EXCEPT !.ResumeAt = 12, !.XonAnyChar = FALSE]>>}

SpecialChars == {<<>>, <<35>>}

\* The state after a driver call op(u, args) that ended in world w.
ReturnCall(w, op, u, args) ==
  /\ dev' = w.dev
  /\ uart' = w.uart
  /\ log' = w.log
  /\ ret' = [op |-> op, u |-> u, err |-> w.err, step |-> w.step, cnt |-> w.cnt,
             data |-> w.data, lcr |-> 0,
             ier |-> IF uart[u].Channel \in Channels
                       THEN dev.reg[uart[u].Channel]["IER"] ELSE 0,
             before |-> uart[u], args |-> args,
             nullDeref |-> w.nullDeref, baudrateError |-> w.baudrateError,
             lastErr |-> w.lastErr]
  /\ nops' = nops + 1
  /\ clean' = (clean /\ \A j \in 1..Len(w.log) : w.log[j].ok)

\* The configurator is called inside InitUART, between "Enable TCR and TLR"
\* and "Disable TCR and TLR access": both UARTs are initialized, then TCR and
\* TLR are enabled on both channels.
InitFlow ==
  /\ \E w \in {SC16IS7XX_ModifyRegister(
                 SC16IS7XX_ModifyRegister(InitBothUARTs(ResetDevice, BuffersOfSize(MaxFifo)),
                                          SC16IS7XX_CHANNEL_A, RegSC16IS7XX_MCR, 4, 4),
                 SC16IS7XX_CHANNEL_B, RegSC16IS7XX_MCR, 4, 4)} :
       dev = w.dev /\ uart = w.uart
  /\ log = <<>>
  /\ ret = NoCall
  /\ nops = 0
  /\ clean = TRUE
  /\ lineFormat = [c \in Channels |-> <<>>]
  /\ hist = NoHist
  /\ loop = NoLoop
  /\ task = NoTask

SetControlFlowConfiguration ==
  /\ CanCall
  /\ \E u \in UARTs, pHardFlow \in HardFlows, pSoftFlow \in SoftFlows,
        pSpecialChar \in SpecialChars, useAddressChar \in BOOLEAN :
       \E fail \in FailSets(__SC16IS7XX_SetControlFlowConfiguration(
                              World({}, 0, ERR_OK), u, pHardFlow, pSoftFlow, pSpecialChar,
                              useAddressChar).ncall) :
         \E w \in {__SC16IS7XX_SetControlFlowConfiguration(
                     World(fail, 0, ERR_OK), u, pHardFlow, pSoftFlow, pSpecialChar,
                     useAddressChar)} :
           ReturnCall(w, "SetControlFlowConfiguration", u,
                      [pHardFlow |-> pHardFlow, pSoftFlow |-> pSoftFlow,
                       pSpecialChar |-> pSpecialChar, useAddressChar |-> useAddressChar])
  /\ UNCHANGED <<task, lineFormat, hist, loop>>

NextFlow == SetControlFlowConfiguration

SpecFlow == InitFlow /\ [][NextFlow]_vars

\* =========================================================================
\* Properties of the control flow configurator
\* =========================================================================
\* C14: a call of the control flow configurator that is given both a
\* hardware and a software control flow descriptor returns
\* ERR__CONFIGURATION and writes no register.
C14_BothFlowsRejectedWithoutWrite ==
  (/\ ret.op = "SetControlFlowConfiguration"
   /\ Len(ret.args.pHardFlow) > 0
   /\ Len(ret.args.pSoftFlow) > 0) =>
    /\ ret.err = ERR__CONFIGURATION
    /\ \A i \in 1..Len(log) : log[i].op # "W"

\* A call with both descriptors, each with trigger levels the configurator
\* accepts, was rejected.
C14_Witness ==
  /\ ret.op = "SetControlFlowConfiguration"
  /\ ret.args.pHardFlow = <<HardFlowDefault>>
  /\ ret.args.pSoftFlow = <<SoftFlowDefault>>
  /\ ret.err = ERR__CONFIGURATION
  /\ log = <<>>

\* C15: a call of the control flow configurator that is given a special
\* character together with the use of the address character returns
\* ERR__CONFIGURATION and writes no register, whether it is given no control
\* flow descriptor, the hardware one or the software one.
C15_SpecialAndAddressCharRejectedWithoutWrite ==
  (/\ ret.op = "SetControlFlowConfiguration"
   /\ Len(ret.args.pSpecialChar) > 0
   /\ ret.args.useAddressChar) =>
    /\ ret.err = ERR__CONFIGURATION
    /\ \A i \in 1..Len(log) : log[i].op # "W"

\* C16: a call of the control flow configurator with a hardware or a
\* software control flow descriptor whose HoldAt level is less than or equal
\* to its ResumeAt level returns ERR__CONFIGURATION and writes no register.
C16_HoldNotAboveResumeRejectedWithoutWrite ==
  (/\ ret.op = "SetControlFlowConfiguration"
   /\ \/ /\ Len(ret.args.pHardFlow) > 0
         /\ ret.args.pHardFlow[1].HoldAt <= ret.args.pHardFlow[1].ResumeAt
      \/ /\ Len(ret.args.pSoftFlow) > 0
         /\ ret.args.pSoftFlow[1].HoldAt <= ret.args.pSoftFlow[1].ResumeAt) =>
    /\ ret.err = ERR__CONFIGURATION
    /\ \A i \in 1..Len(log) : log[i].op # "W"

\* A call with the software descriptor alone, HoldAt below ResumeAt, was
\* rejected, after a call that had programmed a control flow.
C16_Witness ==
  /\ ret.op = "SetControlFlowConfiguration"
  /\ ret.args.pHardFlow = <<>>
  /\ Len(ret.args.pSoftFlow) > 0
  /\ ret.args.pSoftFlow[1].HoldAt < ret.args.pSoftFlow[1].ResumeAt
  /\ ret.err = ERR__CONFIGURATION
  /\ log = <<>>
  /\ nops = 2
  /\ dev.reg[uart[ret.u].Channel]["TCR"] # 0

\* =========================================================================
\* Specification of the baud rate solver called on its own
\* =========================================================================
\* A call of SC16IS7XX_SetUARTBaudRate: the clock of the device (crystal or
\* oscillator), whether the part has the IrDA 1/4 ratio, and the baud rate,
\* UART type and IrDA mode of the configuration.
Request(XtalFreq, OscFreq, IrDA_1_4_RATIO, UARTbaudrate, UARTtype, IrDAmode) ==
  [comp |-> [XtalFreq |-> XtalFreq, OscFreq |-> OscFreq, IrDA_1_4_RATIO |-> IrDA_1_4_RATIO,
             HAVE_2_UARTS |-> TRUE, HAVE_GPIO |-> TRUE,
             Interface |-> SC16IS7XX_INTERFACE_SPI,
             DevicePN |-> SC16IS752, InterfaceClockSpeed |-> 4000000,
             I2C_CLOCK_MAX |-> SC16IS7XX_I2C_CLOCK_MAX,
             SPI_CLOCK_MAX |-> SC16IS7XX_SPI_CLOCK_MAX, GPIOsOutState |-> 0],
   conf |-> [UART_EXT2_RS232config EXCEPT !.UARTbaudrate = UARTbaudrate,
                                          !.UARTtype = UARTtype,
                                          !.IrDA.IrDAmode = IrDAmode]]

\* Requests inside the limits: usual crystals and baud rates, the extreme
\* frequencies and baud rates, oscillators up to 80 MHz, IrDA at its maximum
\* speeds; requests outside each limit; and a device that gives both the
\* frequency of a crystal and the frequency of an oscillator.
BaudRequests ==
  { Request(1843200, 0, FALSE, 115200, "RS232", "SIR_3_16_RATIO"),
    Request(1843200, 0, FALSE, 38400, "RS232", "SIR_3_16_RATIO"),
    Request(1843200, 0, FALSE, 9600, "RS232", "SIR_3_16_RATIO"),
    Request(1843200, 0, FALSE, 100, "RS232", "SIR_3_16_RATIO"),
    Request(14745600, 0, TRUE, 115200, "RS485", "SIR_3_16_RATIO"),
    Request(24000000, 0, FALSE, 192, "RS232", "SIR_3_16_RATIO"),
    Request(1600, 0, FALSE, 5000000, "RS232", "SIR_3_16_RATIO"),
    Request(1600, 0, FALSE, 100, "RS232", "SIR_3_16_RATIO"),
    Request(0, 80000000, FALSE, 100, "RS232", "SIR_3_16_RATIO"),
    Request(0, 80000000, FALSE, 5000000, "RS232", "SIR_3_16_RATIO"),
    Request(0, 67838133, FALSE, 537, "RS232", "SIR_3_16_RATIO"),
    Request(0, 54715006, FALSE, 592, "RS232", "SIR_3_16_RATIO"),
    Request(1843200, 0, FALSE, 115200, "IrDA", "SIR_3_16_RATIO"),
    Request(24000000, 0, TRUE, 1152000, "IrDA", "SIR_1_4_RATIO"),
    Request(1599, 0, FALSE, 100, "RS232", "SIR_3_16_RATIO"),
    Request(24000001, 0, FALSE, 115200, "RS232", "SIR_3_16_RATIO"),
    Request(0, 1599, FALSE, 100, "RS232", "SIR_3_16_RATIO"),
    Request(0, 80000001, FALSE, 115200, "RS232", "SIR_3_16_RATIO"),
    Request(0, 0, FALSE, 9600, "RS232", "SIR_3_16_RATIO"),
    Request(1843200, 0, FALSE, 99, "RS232", "SIR_3_16_RATIO"),
    Request(0, 80000000, FALSE, 5000001, "RS232", "SIR_3_16_RATIO"),
    Request(14745600, 0, FALSE, 115201, "IrDA", "SIR_3_16_RATIO"),
    Request(24000000, 0, TRUE, 1152001, "IrDA", "SIR_1_4_RATIO"),
    Request(1843200, 0, FALSE, 9600, "IrDA", "SIR_1_4_RATIO"),
    Request(1843200, 14745600, FALSE, 9600, "RS232", "SIR_3_16_RATIO") }

\* Both UARTs are initialized (enhanced functions enabled, 115200 bauds).
InitBaud ==
  /\ \E w \in {InitBothUARTs(ResetDevice, BuffersOfSize(0))} :
       dev = w.dev /\ uart = w.uart
  /\ log = <<>>
  /\ ret = NoCall
  /\ nops = 0
  /\ clean = TRUE
  /\ lineFormat = [c \in Channels |-> <<>>]
  /\ hist = NoHist
  /\ loop = NoLoop
  /\ task = NoTask

\* The configuration points to the variable of the test program or holds
\* the null pointer "if no baudrate error is necessary".
BaudrateErrorPointers == {UART_EXT2_RS232config.UARTbaudrateError, NULL}

SetBaudRate ==
  /\ CanCall
  /\ \E u \in UARTs, q \in BaudRequests, p \in BaudrateErrorPointers, ub \in {"store", "trap"} :
       \E r \in {[q EXCEPT !.conf.UARTbaudrateError = p]} :
       \E fail \in FailSets(SC16IS7XX_SetUARTBaudRate(
                              [World({}, 0, ERR_OK) EXCEPT !.comp = r.comp], u, r.conf).ncall) :
         \E w \in {SC16IS7XX_SetUARTBaudRate(
                     [World(fail, 0, ERR_OK) EXCEPT !.comp = r.comp, !.ub = ub], u, r.conf)} :
           ReturnCall(w, "SetUARTBaudRate", u, r)
  /\ UNCHANGED <<task, lineFormat, hist, loop>>

\* SC16IS7XX_ActivateSleepMode
ActivateSleepMode ==
  /\ CanCall
  /\ \E fail \in FailSets(2) :
       \E w \in {SC16IS7XX_ModifyRegister(World(fail, 0, ERR_OK), SC16IS7XX_NO_CHANNEL,
                                          RegSC16IS7XX_IER, 16, 16)} :
         ReturnCall(w, "ActivateSleepMode", UART0_EXT2, <<>>)
  /\ UNCHANGED <<task, lineFormat, hist, loop>>

NextBaud == SetBaudRate \/ ActivateSleepMode

SpecBaud == InitBaud /\ [][NextBaud]_vars

\* What the last call of SC16IS7XX_SetUARTBaudRate was given and what it
\* left in the chip: the reference frequency, the baud rate, the prescaler
\* selected by MCR[7] and the divisor held by DLH:DLL.
Programmed ==
  LET c == ret.args.comp
      r == dev.reg[uart[ret.u].Channel]
  IN [f |-> IF c.XtalFreq # 0 THEN c.XtalFreq ELSE c.OscFreq,
      b |-> ret.args.conf.UARTbaudrate,
      p |-> IF Bit(r["MCR"], 7) = 1 THEN 4 ELSE 1,
      d |-> r["DLL"] + 256 * r["DLH"]]

\* round(f / (16 * p * b)) clamped to [1, 65535], in exact arithmetic
Candidate(f, b, p) ==
  LET d == (2 * f + 16 * p * b) \div (32 * p * b)
  IN IF d < 1 THEN 1 ELSE IF d > 65535 THEN 65535 ELSE d

\* |f / (16 * p * d) - b| compared with |f / (16 * q * e) - b|, both sides
\* multiplied by 16 * p * d * q * e: negative, zero or positive
ErrorCompare(f, b, p, d, q, e) ==
  SC16IS7XX_ABSOLUTE(f - 16 * p * d * b) * q * e
    - SC16IS7XX_ABSOLUTE(f - 16 * q * e * b) * p * d

\* =========================================================================
\* Properties of the baud rate solver
\* =========================================================================
\* C17: after a successful SC16IS7XX_SetUARTBaudRate the absolute baud rate
\* error of the programmed prescaler and divisor is less than or equal to the
\* error of the candidate of the other prescaler, round(f / (16 * p * b))
\* clamped to [1, 65535].
C17_ProgrammedPairHasLeastError ==
  (ret.op = "SetUARTBaudRate" /\ ret.err = ERR_OK) =>
    LET x == Programmed
        q == IF x.p = 1 THEN 4 ELSE 1
    IN ErrorCompare(x.f, x.b, x.p, x.d, q, Candidate(x.f, x.b, q)) <= 0

\* The divisors the solver computes for the two prescalers have the same
\* absolute error.
EqualErrors ==
  LET x == Programmed
  IN ErrorCompare(x.f, x.b, 1, DivisorPrescaler(x.f, x.b, 1),
                  4, DivisorPrescaler(x.f, x.b, 4)) = 0

\* C18 (as stated): when the divisors computed for prescaler 1 and for
\* prescaler 4 have equal absolute errors, a successful
\* SC16IS7XX_SetUARTBaudRate leaves the clock input divided by 1 and the
\* divisor of prescaler 1.
C18_TiesSelectPrescaler1 ==
  (ret.op = "SetUARTBaudRate" /\ ret.err = ERR_OK /\ EqualErrors) =>
    /\ Programmed.p = 1
    /\ Programmed.d = DivisorPrescaler(Programmed.f, Programmed.b, 1)

\* C18 (amended): when the divisors computed for prescaler 1 and for
\* prescaler 4 have equal absolute errors, a successful
\* SC16IS7XX_SetUARTBaudRate writes MCR with the divide-by-4 bit set and
\* leaves the divisor of prescaler 4.
C18_TiesSelectPrescaler4 ==
  (ret.op = "SetUARTBaudRate" /\ ret.err = ERR_OK /\ EqualErrors) =>
    /\ Programmed.p = 4
    /\ Programmed.d = DivisorPrescaler(Programmed.f, Programmed.b, 4)
    /\ \E i \in 1..Len(log) :
         log[i].op = "W" /\ log[i].reg = "MCR" /\ log[i].ok /\ Bit(log[i].val[1], 7) = 1

\* 9600 bauds from the 1.8432 MHz crystal, where both candidates (12 and 3)
\* are exact, was programmed on a channel that was at prescaler 1.
C18_Witness ==
  /\ ret.op = "SetUARTBaudRate"
  /\ ret.err = ERR_OK
  /\ EqualErrors
  /\ Programmed.f = 1843200
  /\ Programmed.b = 9600
  /\ Candidate(1843200, 9600, 1) = 12
  /\ Programmed.d = 3
  /\ \E i \in 1..Len(log) :
       log[i].op = "R" /\ log[i].reg = "MCR" /\ log[i].ok /\ Bit(log[i].val[1], 7) = 0

\* C19: after a successful SC16IS7XX_SetUARTBaudRate the divisor held by
\* DLH:DLL is in 1..65535 and is the one computed for the selected prescaler;
\* the call has selected the special register set, then written DLL with the
\* divisor modulo 256, then DLH with the divisor divided by 256, then gone
\* back to the general register set.  In every call, failed ones included,
\* the registers at the addresses of DLL and DLH are written only as DLL and
\* DLH, DLH right after DLL.
C19_DivisorInRangeWrittenLowThenHigh ==
  ret.op = "SetUARTBaudRate" =>
    /\ \A i \in 1..Len(log) :
         /\ (log[i].op = "W" /\ log[i].addr = 0) => log[i].reg = "DLL"
         /\ (log[i].op = "W" /\ log[i].addr = 1) =>
              /\ log[i].reg = "DLH"
              /\ log[i - 1].op = "W" /\ log[i - 1].reg = "DLL" /\ log[i - 1].ok
    /\ ret.err = ERR_OK =>
         LET x == Programmed
         IN /\ x.d \in 1..65535
            /\ x.d = DivisorPrescaler(x.f, x.b, x.p)
            /\ \E i \in 1..(Len(log) - 4) :
                 /\ log[i].op = "SetAccess" /\ log[i].ok
                 /\ log[i - 1].op = "W" /\ log[i - 1].reg = "LCR"
                 /\ log[i - 1].val = <<SC16IS7XX_LCR_VALUE_SET_SPECIAL_REGISTER>>
                 /\ log[i + 1].op = "W" /\ log[i + 1].reg = "DLL"
                 /\ log[i + 1].val = <<x.d % 256>>
                 /\ log[i + 2].op = "W" /\ log[i + 2].reg = "DLH"
                 /\ log[i + 2].val = <<x.d \div 256>>
                 /\ log[i + 3].op = "W" /\ log[i + 3].reg = "LCR"
                 /\ log[i + 4].op = "ReturnAccess"
                 /\ \A j \in 1..Len(log) :
                      (log[j].op = "W" /\ log[j].reg \in {"DLL", "DLH"}) => j \in {i + 1, i + 2}

\* 5000000 bauds were asked from a 1600 Hz crystal on UART 1, where both
\* divisors are kept at 1, after 100 bauds from the 1.8432 MHz crystal on
\* UART 0, where the divisor 288 needs both bytes.
C19_Witness ==
  /\ ret.op = "SetUARTBaudRate"
  /\ ret.err = ERR_OK
  /\ ret.u = UART1_EXT2
  /\ Programmed.f = 1600
  /\ Programmed.b = 5000000
  /\ Programmed.d = 1
  /\ dev.reg[SC16IS7XX_CHANNEL_A]["MCR"] = 128
  /\ dev.reg[SC16IS7XX_CHANNEL_A]["DLL"] = 32
  /\ dev.reg[SC16IS7XX_CHANNEL_A]["DLH"] = 1

\* The request of the last SC16IS7XX_SetUARTBaudRate is outside the limits:
\* the reference frequency (the crystal if there is one, else the
\* oscillator) is below 1600 Hz or above 24 MHz (crystal) / 80 MHz
\* (oscillator), the baud rate is outside 100..5000000, or the UART type is
\* IrDA and the baud rate is above 115200 (3/16 ratio) or above 1152000
\* (1/4 ratio), or the 1/4 ratio is asked from a part that does not have it.
OutOfLimits ==
  LET c == ret.args.comp
      conf == ret.args.conf
      f == IF c.XtalFreq # 0 THEN c.XtalFreq ELSE c.OscFreq
  IN \/ f < SC16IS7XX_FREQ_MIN
     \/ f > (IF c.XtalFreq # 0 THEN SC16IS7XX_XTAL_FREQ_MAX ELSE SC16IS7XX_OSC_FREQ_MAX)
     \/ conf.UARTbaudrate < SC16IS7XX_BAUDRATE_MIN
     \/ conf.UARTbaudrate > SC16IS7XX_BAUDRATE_MAX
     \/ /\ conf.UARTtype = "IrDA"
        /\ \/ conf.IrDA.IrDAmode = "SIR_3_16_RATIO"
                /\ conf.UARTbaudrate > SC16IS7XX_IrDA_SPEED_MAX
           \/ conf.IrDA.IrDAmode = "SIR_1_4_RATIO"
                /\ (~c.IrDA_1_4_RATIO \/ conf.UARTbaudrate > SC16IS76X_IrDA_SPEED_MAX)

SC16IS740_SPI ==
  [SC16IS752_EXT2 EXCEPT !.DevicePN = SC16IS740, !.HAVE_GPIO = FALSE, !.HAVE_2_UARTS = FALSE,
                         !.XtalFreq = 0, !.OscFreq = 1843200]

SC16IS750_I2C ==
  [SC16IS752_EXT2 EXCEPT !.DevicePN = SC16IS750, !.HAVE_2_UARTS = FALSE,
                         !.XtalFreq = 14745600,
                         !.Interface = SC16IS7XX_INTERFACE_I2C,
                         !.InterfaceClockSpeed = 400000]

Devices ==
  { SC16IS752_EXT2, SC16IS740_SPI, SC16IS750_I2C,
    [SC16IS750_I2C EXCEPT !.InterfaceClockSpeed = 400001],
    [SC16IS752_EXT2 EXCEPT !.DevicePN = SC16IS7XX_PN_COUNT],
    [SC16IS752_EXT2 EXCEPT !.XtalFreq = 24000001],
    [SC16IS752_EXT2 EXCEPT !.XtalFreq = 0] }

\* The SC16IS7XX_Config of the initialization: none, or one that sets GPIOs.
DeviceConfigs ==
  {<<>>, <<[StartupPinsDirection |-> 15, StartupPinsLevel |-> 5, PinsInterruptEnable |-> 3]>>}

\* What the data line gives: the chip (-1), or a stuck line.
DataLines == {-1, 85, 255}

\* The interface at its initialization: it works and the chip answers, its
\* initialization fails, or the chip does not acknowledge its I2C address.
Buses ==
  { [initErr |-> ERR_OK, ready |-> TRUE],
    [initErr |-> ERR__SPI_TIMEOUT, ready |-> TRUE],
    [initErr |-> ERR_OK, ready |-> FALSE] }

\* The failures of the transport: none, or the k-th transport call fails in
\* its address transfer (1) or its data transfer (2) with an error of the
\* interface.
NoFault == [k |-> 0, err |-> ERR_OK, phase |-> 1]

Faults(comp, n) ==
  {NoFault} \cup
  { [k |-> k, err |-> e, phase |-> ph] :
      k \in 1..n,
      e \in IF comp.Interface = SC16IS7XX_INTERFACE_I2C
              THEN {ERR__I2C_NACK, ERR__I2C_NACK_DATA} ELSE {ERR__SPI_TIMEOUT},
      ph \in IF comp.Interface = SC16IS7XX_INTERFACE_I2C THEN {1, 2} ELSE {1} }

\* The world of a call on device comp with the fault f.
DevWorld(comp, f) ==
  [World(IF f.k = 0 THEN {} ELSE {f.k}, 0, ERR_OK) EXCEPT
     !.comp = comp, !.ferr = f.err, !.fphase = f.phase]

\* UART objects with ring buffers; the second one is on channel B or has a
\* channel index out of range.
UARTChannelIndexes == {SC16IS7XX_CHANNEL_B, SC16IS7XX_CHANNEL_COUNT}

InitDev ==
  /\ dev = ResetDevice
  /\ \E ch \in UARTChannelIndexes :
       uart = [u \in UARTs |-> NewUART(IF u = UART0_EXT2 THEN SC16IS7XX_CHANNEL_A ELSE ch,
                                       0, MaxBuf, MaxBuf)]
  /\ log = <<>>
  /\ ret = NoCall
  /\ nops = 0
  /\ clean = TRUE
  /\ lineFormat = [c \in Channels |-> <<>>]
  /\ hist = NoHist
  /\ loop = NoLoop
  /\ task = NoTask

DevCanCall == nops < MaxOps

DevInit ==
  /\ DevCanCall
  /\ \E comp \in Devices, pConf \in DeviceConfigs, miso \in DataLines, bus \in Buses :
       \E f \in Faults(comp, 8) :
         \E w \in {Init_SC16IS7XX([DevWorld(comp, f) EXCEPT !.miso = miso,
                                                             !.initErr = bus.initErr,
                                                             !.ready = bus.ready], pConf)} :
           ReturnCall(w, "Init_SC16IS7XX", UART0_EXT2,
                      [comp |-> comp, pConf |-> pConf, f |-> f, miso |-> miso])
  /\ UNCHANGED <<task, lineFormat, hist, loop>>

DevHardwareCommTest ==
  /\ DevCanCall
  /\ \E comp \in {SC16IS752_EXT2, SC16IS750_I2C}, miso \in DataLines \cup {170} :
       \E f \in Faults(comp, 4) :
         \E w \in {SC16IS7XX_HardwareCommTest([DevWorld(comp, f) EXCEPT !.miso = miso])} :
           ReturnCall(w, "HardwareCommTest", UART0_EXT2,
                      [comp |-> comp, f |-> f, miso |-> miso])
  /\ UNCHANGED <<task, lineFormat, hist, loop>>

DevInitUART ==
  /\ DevCanCall
  /\ \E u \in UARTs, comp \in {SC16IS752_EXT2, SC16IS740_SPI, SC16IS750_I2C} :
       \E f \in Faults(comp, 2) :
         \E w \in {SC16IS7XX_InitUART(DevWorld(comp, f), u, UART_EXT2_RS232config)} :
           ReturnCall(w, "InitUART", u, [comp |-> comp, f |-> f])
  /\ UNCHANGED <<task, lineFormat, hist, loop>>

\* The transmit call does not look at the part of the device.
DevTransmitData ==
  /\ DevCanCall
  /\ \E u \in UARTs, n \in 1..MaxBuf :
       /\ uart[u].Channel \in Channels
       /\ \E w \in {SC16IS7XX_TransmitData(DevWorld(SC16IS752_EXT2, NoFault), u,
                                            [i \in 1..n |-> 64 + i])} :
            ReturnCall(w, "TransmitData", u, [comp |-> SC16IS752_EXT2, f |-> NoFault])
  /\ UNCHANGED <<task, lineFormat, hist, loop>>

DevWriteRegister ==
  /\ DevCanCall
  /\ \E comp \in {SC16IS752_EXT2, SC16IS750_I2C}, value \in {8, 85} :
       \E registerAddr \in {RegSC16IS7XX_SPR, RegSC16IS7XX_IOControl}, f \in Faults(comp, 1) :
         \E w \in {SC16IS7XX_WriteRegister(DevWorld(comp, f), SC16IS7XX_NO_CHANNEL,
                                            registerAddr, value)} :
           ReturnCall(w, "WriteRegister", UART0_EXT2, [comp |-> comp, f |-> f])
  /\ UNCHANGED <<task, lineFormat, hist, loop>>

DevReadRegister ==
  /\ DevCanCall
  /\ \E comp \in {SC16IS752_EXT2, SC16IS750_I2C} :
       \E registerAddr \in {RegSC16IS7XX_SPR, RegSC16IS7XX_IOControl}, f \in Faults(comp, 1) :
         \E w \in {SC16IS7XX_ReadRegister(DevWorld(comp, f), SC16IS7XX_NO_CHANNEL,
                                           registerAddr)} :
           ReturnCall(w, "ReadRegister", UART0_EXT2, [comp |-> comp, f |-> f])
  /\ UNCHANGED <<task, lineFormat, hist, loop>>

DevSoftResetDevice ==
  /\ DevCanCall
  /\ \E comp \in {SC16IS752_EXT2, SC16IS750_I2C} :
       \E f \in Faults(comp, 1) :
         \E w \in {SC16IS7XX_SoftResetDevice(DevWorld(comp, f))} :
           ReturnCall(w, "SoftResetDevice", UART0_EXT2, [comp |-> comp, f |-> f])
  /\ UNCHANGED <<task, lineFormat, hist, loop>>

\* The directions and masks of the GPIO calls.
PinsDirections == {0, 15, 165, 255}

PinsChangeMasks == {15, 255}

DevConfigureGPIOs ==
  /\ DevCanCall
  /\ \E comp \in {SC16IS752_EXT2, SC16IS740_SPI}, pinsDirection \in PinsDirections :
       \E f \in Faults(comp, 3) :
         \E w \in {SC16IS7XX_ConfigureGPIOs(DevWorld(comp, f), pinsDirection, 5, 3)} :
           ReturnCall(w, "ConfigureGPIOs", UART0_EXT2,
                      [comp |-> comp, f |-> f, pinsDirection |-> pinsDirection])
  /\ UNCHANGED <<task, lineFormat, hist, loop>>

DevSetGPIOPinsDirection ==
  /\ DevCanCall
  /\ \E comp \in {SC16IS752_EXT2, SC16IS740_SPI}, pinsDirection \in PinsDirections,
        pinsChangeMask \in PinsChangeMasks :
       \E f \in Faults(comp, 2) :
         \E w \in {SC16IS7XX_SetGPIOPinsDirection(DevWorld(comp, f), pinsDirection,
                                                   pinsChangeMask)} :
           ReturnCall(w, "SetGPIOPinsDirection", UART0_EXT2,
                      [comp |-> comp, f |-> f, pinsDirection |-> pinsDirection,
                       pinsChangeMask |-> pinsChangeMask])
  /\ UNCHANGED <<task, lineFormat, hist, loop>>

NextDev ==
  \/ DevInit
  \/ DevConfigureGPIOs
  \/ DevSetGPIOPinsDirection
  \/ DevHardwareCommTest
  \/ DevInitUART
  \/ DevTransmitData
  \/ DevWriteRegister
  \/ DevReadRegister
  \/ DevSoftResetDevice

SpecDev == InitDev /\ [][NextDev]_vars


\* =========================================================================
\* Specification of two callers that configure the two channels of one
\* device
\* =========================================================================
\* Each channel has a task that runs the modification of IOControl of
\* __SC16IS7XX_SetUARTConfiguration ("Modify the IOControl register") for a
\* UART type, the read and the write of SC16IS7XX_ModifyRegister being two
\* steps; the other register accesses of the initialization are made on
\* registers of the channel itself.  A caller may also run a whole
\* SC16IS7XX_InitUART in one step.
\*
\* task.config[c] is the UART type of the last configuration completed on
\* channel c, task.stale[c] tells that the other channel wrote IOControl
\* after the read of the modification in progress on channel c, and
\* task.raced that some modification wrote a value computed from a stale
\* read: the calls were not serialized.
ShareUARTtypes == {"Modem", "RS232"}

ShareConfig(UARTtype) == [UART_EXT2_RS232config EXCEPT !.UARTtype = UARTtype]

OtherChannel(c) ==
  IF c = SC16IS7XX_CHANNEL_A THEN SC16IS7XX_CHANNEL_B ELSE SC16IS7XX_CHANNEL_A

InitShare ==
  /\ dev = ResetDevice
  /\ uart = [u \in UARTs |-> NewUART(IF u = UART0_EXT2 THEN SC16IS7XX_CHANNEL_A
                                      ELSE SC16IS7XX_CHANNEL_B, 0, 0, 0)]
  /\ log = <<>>
  /\ ret = NoCall
  /\ nops = 0
  /\ clean = TRUE
  /\ lineFormat = [c \in Channels |-> <<>>]
  /\ hist = NoHist
  /\ loop = NoLoop
  /\ task = [pc |-> [c \in Channels |-> "idle"],
             RegValue |-> [c \in Channels |-> 0],
             UARTtype |-> [c \in Channels |-> ""],
             config |-> [c \in Channels |-> ""],
             stale |-> [c \in Channels |-> FALSE],
             raced |-> FALSE]

\* The other channel's modification in progress has read a value that a write
\* of channel c to IOControl makes stale.
StaleAfterWriteOf(c) ==
  [task.stale EXCEPT ![OtherChannel(c)] = @ \/ task.pc[OtherChannel(c)] = "read"]

ShareInitUART ==
  /\ nops < MaxOps
  /\ \E u \in UARTs, UARTtype \in ShareUARTtypes, garbErr \in UninitializedErrors :
       /\ task.pc[uart[u].Channel] # "read"
       /\ \E w \in {SC16IS7XX_InitUART(World({}, 0, garbErr), u, ShareConfig(UARTtype))} :
            /\ ReturnCall(w, "InitUART", u, [UARTtype |-> UARTtype])
            /\ task' = [task EXCEPT !.config[uart[u].Channel] =
                                      IF w.err = ERR_OK THEN UARTtype ELSE "",
                                    !.stale = StaleAfterWriteOf(uart[u].Channel)]
  /\ UNCHANGED <<lineFormat, hist, loop>>

\* RegValue is read.
ModifyRead ==
  /\ \E c \in Channels, UARTtype \in ShareUARTtypes :
       /\ task.pc[c] = "idle"
       /\ \E w \in {SC16IS7XX_ReadRegister(World({}, 0, ERR_OK), c, RegSC16IS7XX_IOControl)} :
            /\ dev' = w.dev
            /\ task' = [task EXCEPT !.pc[c] = "read", !.RegValue[c] = w.val[1],
                                    !.UARTtype[c] = UARTtype, !.stale[c] = FALSE]
  /\ UNCHANGED <<uart, log, ret, nops, clean, lineFormat, hist, loop>>

\* RegValue is modified and written.
ModifyWrite ==
  /\ \E c \in Channels :
       /\ task.pc[c] = "read"
       /\ \E w \in {SC16IS7XX_WriteRegister(
                        World({}, 0, ERR_OK), c, RegSC16IS7XX_IOControl,
                        ModifiedValue(task.RegValue[c],
                                      IOControlValue(task.UARTtype[c], c),
                                      IOControlMask(c)))} :
            /\ dev' = w.dev
            /\ task' = [task EXCEPT !.pc[c] = "idle", !.config[c] = task.UARTtype[c],
                                    !.stale = [StaleAfterWriteOf(c) EXCEPT ![c] = FALSE],
                                    !.raced = @ \/ task.stale[c]]
  /\ nops < MaxOps + 2
  /\ nops' = nops + 1
  /\ UNCHANGED <<uart, log, ret, clean, lineFormat, hist, loop>>

NextShare ==
  \/ ShareInitUART
  \/ ModifyRead
  \/ ModifyWrite

SpecShare == InitShare /\ [][NextShare]_vars


C30_NullBaudrateErrorAccepted ==
  (/\ ret.op = "SetUARTBaudRate"
   /\ ret.args.conf.UARTbaudrateError = NULL
   /\ ~OutOfLimits
   /\ Bit(dev.reg[SC16IS7XX_NO_CHANNEL]["IER"], 4) = 0
   /\ \A i \in 1..Len(log) : log[i].ok) =>
    /\ ret.err = ERR_OK
    /\ ~ret.nullDeref
    /\ Programmed.d = DivisorPrescaler(Programmed.f, Programmed.b, Programmed.p)

\* C21: a call of SC16IS7XX_SetUARTBaudRate for a device whose XtalFreq and
\* OscFreq are both nonzero, or both zero, made while the device is awake and
\* with no transport failure, returns ERR__CONFIGURATION or
\* ERR__FREQUENCY_ERROR and writes no register.
C21_NotExactlyOneClockRejectedWithoutWrite ==
  (/\ ret.op = "SetUARTBaudRate"
   /\ (ret.args.comp.XtalFreq = 0) = (ret.args.comp.OscFreq = 0)
   /\ Bit(dev.reg[SC16IS7XX_NO_CHANNEL]["IER"], 4) = 0
   /\ \A i \in 1..Len(log) : log[i].ok) =>
    /\ ret.err \in {ERR__CONFIGURATION, ERR__FREQUENCY_ERROR}
    /\ \A i \in 1..Len(log) : log[i].op # "W"

\* =========================================================================
\* Specification of the character transfers on a line with errors
\* =========================================================================
\* The drivers of the two UARTs: burst transfers without buffers, safe
\* transfers, burst transfers through ring buffers.
LineDrivers ==
  { [DriverConfig |-> 0, size |-> 0],
    [DriverConfig |-> SC16IS7XX_DRIVER_SAFE_TX + SC16IS7XX_DRIVER_SAFE_RX, size |-> 0],
    [DriverConfig |-> 0, size |-> MaxBuf] }

\* What a failing transport call returns: a timeout, or "transfer in
\* progress" (src/Tests/src/Driver/SPI/SPI_V71.c).
TransportErrors == {ERR__SPI_TIMEOUT, ERR__SPI_BUSY}

\* The status a character comes with.
LineErrors ==
  {SC16IS7XX_NO_RX_ERROR, SC16IS7XX_PARITY_ERROR, SC16IS7XX_FRAMING_ERROR, SC16IS7XX_BREAK_ERROR}

InitLine ==
  /\ \E d \in LineDrivers :
       \E w \in {InitBothUARTs(ResetDevice,
                    [u \in UARTs |-> NewUART(IF u = UART0_EXT2 THEN SC16IS7XX_CHANNEL_A
                                             ELSE SC16IS7XX_CHANNEL_B,
                                             d.DriverConfig, d.size, d.size)])} :
         dev = w.dev /\ uart = w.uart
  /\ log = <<>>
  /\ ret = NoCall
  /\ nops = 0
  /\ clean = TRUE
  /\ lineFormat = [c \in Channels |-> <<>>]
  /\ hist = NoHist
  /\ loop = NoLoop
  /\ task = NoTask

LineCanCall == nops < MaxOps

\* A character comes from the line into the Rx FIFO of UART 1, or is lost
\* (overrun) when the FIFO is full.
LineCharacter ==
  /\ LineCanCall
  /\ \E e \in LineErrors :
       dev' = IF Len(dev.rxFifo[SC16IS7XX_CHANNEL_B]) < MaxFifo
                THEN [dev EXCEPT !.rxFifo[SC16IS7XX_CHANNEL_B] =
                        Append(@, (IF e = SC16IS7XX_BREAK_ERROR THEN 0 ELSE 65 + Len(@))
                                  + 256 * e)]
                ELSE [dev EXCEPT !.overrun[SC16IS7XX_CHANNEL_B] = TRUE]
  /\ UNCHANGED <<task, uart, log, ret, nops, clean, lineFormat, hist, loop>>

\* The world a driver call of the line specification starts in: g is what
\* the caller's variables hold before the call (*lastDataError included), e
\* what a failing transport call returns.
LineWorld(fail, g, e) == [World(fail, g, ERR_OK) EXCEPT !.lastErr = g, !.ferr = e]

\* Only a call that returns leaves a state.
LineReturn(w, op, u, args) == w.err # NO_RETURN /\ ReturnCall(w, op, u, args)

LineReceiveData ==
  /\ LineCanCall
  /\ \E n \in 0..MaxFifo, g \in UninitializedBytes, e \in TransportErrors :
       \E fail \in FailSets(SC16IS7XX_ReceiveData(LineWorld({}, g, e), UART1_EXT2,
                                                  [i \in 1..n |-> 0]).ncall) :
         \E w \in {SC16IS7XX_ReceiveData(LineWorld(fail, g, e), UART1_EXT2,
                                         [i \in 1..n |-> 0])} :
           LineReturn(w, "ReceiveData", UART1_EXT2, [size |-> n])
  /\ UNCHANGED <<task, lineFormat, hist, loop>>

LineReceiveChar ==
  /\ LineCanCall
  /\ \E g \in UninitializedBytes, e \in TransportErrors :
       \E fail \in FailSets(SC16IS7XX_ReceiveChar(LineWorld({}, g, e), UART1_EXT2).ncall) :
         \E w \in {SC16IS7XX_ReceiveChar(LineWorld(fail, g, e), UART1_EXT2)} :
           LineReturn(w, "ReceiveChar", UART1_EXT2, [size |-> 1])
  /\ UNCHANGED <<task, lineFormat, hist, loop>>

LineTransmitData ==
  /\ LineCanCall
  /\ \E n \in 1..MaxBuf, g \in UninitializedBytes, e \in TransportErrors :
       \E fail \in FailSets(SC16IS7XX_TransmitData(LineWorld({}, g, e), UART0_EXT2,
                                                   [i \in 1..n |-> 48 + i]).ncall) :
         \E w \in {SC16IS7XX_TransmitData(LineWorld(fail, g, e), UART0_EXT2,
                                          [i \in 1..n |-> 48 + i])} :
           LineReturn(w, "TransmitData", UART0_EXT2, [size |-> n])
  /\ UNCHANGED <<task, lineFormat, hist, loop>>

LineTransmitChar ==
  /\ LineCanCall
  /\ \E g \in UninitializedBytes, e \in TransportErrors :
       \E fail \in FailSets(SC16IS7XX_TransmitChar(LineWorld({}, g, e), UART0_EXT2,
                                                   48).ncall) :
         \E w \in {SC16IS7XX_TransmitChar(LineWorld(fail, g, e), UART0_EXT2, 48)} :
           LineReturn(w, "TransmitChar", UART0_EXT2, [size |-> 1])
  /\ UNCHANGED <<task, lineFormat, hist, loop>>

LineWaitEndTx ==
  /\ LineCanCall
  /\ \E g \in UninitializedBytes, e \in TransportErrors :
       \E fail \in FailSets(SC16IS7XX_WaitEndTx(LineWorld({}, g, e), UART0_EXT2).ncall) :
         \E w \in {SC16IS7XX_WaitEndTx(LineWorld(fail, g, e), UART0_EXT2)} :
           LineReturn(w, "WaitEndTx", UART0_EXT2, [size |-> 0])
  /\ UNCHANGED <<task, lineFormat, hist, loop>>

NextLine ==
  \/ LineCharacter
  \/ LineReceiveData
  \/ LineReceiveChar
  \/ LineTransmitData
  \/ LineTransmitChar
  \/ LineWaitEndTx
  \/ Transmitter

SpecLine == InitLine /\ [][NextLine]_vars

\* =========================================================================
\* Properties of the character transfers
\* =========================================================================
\* The last call is a SC16IS7XX_ReceiveData in safe receive mode.
SafeReceive ==
  /\ ret.op = "ReceiveData"
  /\ BitAnd(uart[ret.u].DriverConfig, SC16IS7XX_DRIVER_SAFE_RX) > 0

\* The overrun, parity, framing and break bits of the LSR value read by
\* transport call i of the last driver call.
LineStatusErrors(i) ==
  BitAnd(log[i].val[1], SC16IS7XX_OVERRUN_ERROR + SC16IS7XX_PARITY_ERROR
                        + SC16IS7XX_FRAMING_ERROR + SC16IS7XX_BREAK_ERROR)

\* The reads of RHR of the last driver call that succeeded.
BytesRead == {j \in 1..Len(log) : log[j].op = "R" /\ log[j].reg = "RHR" /\ log[j].ok}

\* Transport call i is a read of LSR that found error bits and the read of
\* RHR that follows it has succeeded.
ErrorFoundAt(i) ==
  /\ log[i].op = "R" /\ log[i].reg = "LSR" /\ log[i].ok
  /\ LineStatusErrors(i) # 0
  /\ i + 1 \in BytesRead

\* In safe receive mode every read of RHR is a read of one byte that follows
\* a successful read of LSR.
OneByteAtATime ==
  \A i \in 1..Len(log) :
    (log[i].op = "R" /\ log[i].reg = "RHR") =>
      /\ i > 1
      /\ log[i - 1].op = "R" /\ log[i - 1].reg = "LSR" /\ log[i - 1].ok
      /\ log[i].ok => Len(log[i].val) = 1

\* C23 (as stated): in safe receive mode SC16IS7XX_ReceiveData reads one byte
\* at a time; when a read of LSR finds overrun, parity, framing or break bits
\* the call reads no byte after the one they belong to, returns
\* ERR__RECEIVE_ERROR with *lastDataError equal to those bits, and
\* *actuallyReceived is the number of bytes delivered before the one in error.
C23_SafeReceiveCountsBytesBeforeError ==
  SafeReceive =>
    /\ OneByteAtATime
    /\ \A i \in 1..Len(log) :
         ErrorFoundAt(i) =>
           /\ i + 1 = Len(log)
           /\ ret.err = ERR__RECEIVE_ERROR
           /\ ret.lastErr = LineStatusErrors(i)
           /\ ret.cnt = Cardinality(BytesRead) - 1

\* C23 (amended): as stated, but *actuallyReceived counts the byte in error
\* too: it is the number of bytes read from RHR, each of them stored in the
\* caller's array, the byte in error last.
C23_SafeReceiveCountsByteInError ==
  SafeReceive =>
    /\ OneByteAtATime
    /\ \A i \in 1..Len(log) :
         ErrorFoundAt(i) =>
           /\ i + 1 = Len(log)
           /\ ret.err = ERR__RECEIVE_ERROR
           /\ ret.lastErr = LineStatusErrors(i)
           /\ ret.cnt = Cardinality(BytesRead)
           /\ \A k \in 1..ret.cnt : ret.data[k] = log[2 * k + 1].val[1]

\* Two characters were in the Rx FIFO, the first one a break; a safe
\* SC16IS7XX_ReceiveData asked for two bytes has read the break character
\* and left the second in the FIFO.
C23_Witness ==
  /\ SafeReceive
  /\ ret.args.size = 2
  /\ Len(log) = 3
  /\ log[1].reg = "RXLVL" /\ log[1].val = <<2>>
  /\ ErrorFoundAt(2)
  /\ ret.err = ERR__RECEIVE_ERROR
  /\ ret.lastErr = SC16IS7XX_BREAK_ERROR
  /\ ret.cnt = 1
  /\ ret.data[1] = 0
  /\ Len(dev.rxFifo[uart[ret.u].Channel]) = 1

\* C24: SC16IS7XX_ReceiveData and SC16IS7XX_ReceiveChar that return ERR_OK
\* leave 0 (SC16IS7XX_NO_RX_ERROR) in *lastDataError / *charError, whatever
\* the variable held before the call.
C24_LastDataErrorClearedOnSuccess ==
  (ret.op \in {"ReceiveData", "ReceiveChar"} /\ ret.err = ERR_OK) =>
    ret.lastErr = SC16IS7XX_NO_RX_ERROR

\* C25: SC16IS7XX_TransmitChar and SC16IS7XX_ReceiveChar do not return a
\* transport busy result to their caller, and when they return ERR_OK one
\* byte has been moved.
C25_CharTransfersRetryBusy ==
  ret.op \in {"TransmitChar", "ReceiveChar"} =>
    /\ ret.err \notin {ERR__BUSY, ERR__SPI_BUSY, ERR__I2C_BUSY}
    /\ ret.err = ERR_OK => ret.cnt = 1

\* C26: SC16IS7XX_WaitEndTx does not return a transport busy result; when
\* it returns ERR_OK the Tx buffer is empty and the last transport call is a
\* read of LSR with THR and TSR empty; when it returns an error, it is the
\* error of the transport call that failed.
C26_WaitEndTxToleratesBusy ==
  ret.op = "WaitEndTx" =>
    /\ ret.err \notin {ERR__BUSY, ERR__SPI_BUSY, ERR__I2C_BUSY}
    /\ ret.err = ERR_OK =>
         /\ ~uart[ret.u].TxBuffer.IsFull
         /\ uart[ret.u].TxBuffer.PosIn = uart[ret.u].TxBuffer.PosOut
         /\ log[Len(log)].op = "R" /\ log[Len(log)].reg = "LSR" /\ log[Len(log)].ok
         /\ Bit(log[Len(log)].val[1], 6) = 1
    /\ ret.err # ERR_OK => \E i \in 1..Len(log) : ~log[i].ok


\* C28: SC16IS7XX_InitUART on a UART object whose channel index is outside
\* {A, B}, or whose channel is B on a part without two UARTs, returns
\* ERR__UNKNOWN_ELEMENT, makes no register access and leaves the cursors of
\* the ring buffers of the UART object as they were.
C28_UnknownChannelRejectedUntouched ==
  (/\ ret.op = "InitUART"
   /\ \/ ret.before.Channel \notin {SC16IS7XX_CHANNEL_A, SC16IS7XX_CHANNEL_B}
      \/ ret.before.Channel = SC16IS7XX_CHANNEL_B /\ ~ret.args.comp.HAVE_2_UARTS)
  => /\ ret.err = ERR__UNKNOWN_ELEMENT
     /\ log = <<>>
     /\ uart[ret.u] = ret.before

\* InitUART was refused on channel B of a part with one UART while the Tx
\* ring buffer of the UART object held data; another time on a channel index
\* out of range.
C28_Witness ==
  /\ ret.op = "InitUART"
  /\ ret.err = ERR__UNKNOWN_ELEMENT
  /\ \/ /\ ret.before.Channel = SC16IS7XX_CHANNEL_B
        /\ ~ret.args.comp.HAVE_2_UARTS
        /\ ret.before.TxBuffer.PosIn # 0
        /\ ret.before.TxBuffer.PosIn # ret.before.TxBuffer.PosOut
        /\ uart[ret.u].TxBuffer.PosIn = ret.before.TxBuffer.PosIn
     \/ ret.before.Channel = SC16IS7XX_CHANNEL_COUNT

\* The i-th transport call of the last driver call wrote value to the scratch
\* register / read the scratch register.
WroteScratch(i, value) ==
  log[i].op = "W" /\ log[i].addr = RegSC16IS7XX_SPR /\ log[i].ch = SC16IS7XX_NO_CHANNEL
  /\ log[i].val = <<value>>

ReadScratch(i) ==
  log[i].op = "R" /\ log[i].addr = RegSC16IS7XX_SPR /\ log[i].ch = SC16IS7XX_NO_CHANNEL

\* The communication test inside the last Init_SC16IS7XX read back a value
\* that differs from the value it had written.
InitReadBackDiffers ==
  \E i \in 2..Len(log) :
    /\ log[i].step = "HardwareCommTest" /\ log[i].op = "R" /\ log[i].ok
    /\ log[i - 1].op = "W" /\ log[i].val # log[i - 1].val

\* C27: SC16IS7XX_HardwareCommTest, when no transport call fails, writes 0x55
\* to the scratch register and reads it back, then writes 0xAA and reads it
\* back; it returns ERR__BAD_DATA at the first read-back that differs from the
\* value written and ERR_OK when both match.  Init_SC16IS7XX, when its
\* communication test reads back a different value, returns
\* ERR__NO_DEVICE_DETECTED and writes none of the GPIO registers.
C27_CommTestScratchPatterns ==
  /\ (ret.op = "HardwareCommTest" /\ \A i \in 1..Len(log) : log[i].ok)
       => /\ Len(log) >= 2 /\ WroteScratch(1, 85) /\ ReadScratch(2)
          /\ IF log[2].val # <<85>>
               THEN Len(log) = 2 /\ ret.err = ERR__BAD_DATA
               ELSE /\ Len(log) = 4 /\ WroteScratch(3, 170) /\ ReadScratch(4)
                    /\ ret.err = IF log[4].val # <<170>> THEN ERR__BAD_DATA ELSE ERR_OK
  /\ (ret.op = "Init_SC16IS7XX" /\ InitReadBackDiffers)
       => /\ ret.err = ERR__NO_DEVICE_DETECTED
          /\ \A i \in 1..Len(log) :
               /\ log[i].step # "ConfigureGPIOs"
               /\ log[i].addr \notin {RegSC16IS7XX_IODir, RegSC16IS7XX_IOState,
                                      RegSC16IS7XX_IOIntEna}
  /\ ret.op = "Init_SC16IS7XX" => ret.err # ERR__BAD_DATA

\* Init_SC16IS7XX with a GPIO configuration, on a part with GPIOs, read back
\* 0x55 after it had written 0xAA and reported that no device is detected.
C27_Witness ==
  /\ ret.op = "Init_SC16IS7XX"
  /\ ret.err = ERR__NO_DEVICE_DETECTED
  /\ ret.args.comp.HAVE_GPIO /\ Len(ret.args.pConf) > 0
  /\ Len(log) = 5
  /\ WroteScratch(2, 85) /\ log[3].val = <<85>>
  /\ WroteScratch(4, 170) /\ log[5].ok /\ log[5].val = <<85>>

\* The last driver call was made on the I2C interface and its one transport
\* call failed with error in the given transfer.
I2CCallFailed(ops, error, phase) ==
  /\ ret.op \in ops
  /\ ret.args.comp.Interface = SC16IS7XX_INTERFACE_I2C
  /\ Len(log) = 1 /\ ~log[1].ok
  /\ ret.args.f.err = error /\ ret.args.f.phase = phase

\* C29 (as stated): on I2C, a NACK of the address transfer of a register read
\* or write is returned as ERR__NOT_READY, and a NACK of a data byte of a
\* register write, in whichever transfer, is returned as
\* ERR__I2C_INVALID_ADDRESS.
C29_DataNackIsInvalidAddress ==
  /\ I2CCallFailed({"ReadRegister", "WriteRegister"}, ERR__I2C_NACK, 1)
       => ret.err = ERR__NOT_READY
  /\ \A phase \in {1, 2} :
       I2CCallFailed({"WriteRegister"}, ERR__I2C_NACK_DATA, phase)
         => ret.err = ERR__I2C_INVALID_ADDRESS

\* C29 (amended): on I2C, ERR__I2C_NACK of the address transfer of a register
\* read or write is returned as ERR__NOT_READY and ERR__I2C_NACK_DATA of the
\* address transfer of a register write as ERR__I2C_INVALID_ADDRESS; a NACK of
\* the data transfer is returned as the interface gave it, and
\* SC16IS7XX_SoftResetDevice returns ERR_OK for ERR__I2C_NACK_DATA of the data
\* transfer of its write.
C29_AddressTransferNackIsMapped ==
  /\ I2CCallFailed({"ReadRegister", "WriteRegister", "SoftResetDevice"}, ERR__I2C_NACK, 1)
       => ret.err = ERR__NOT_READY
  /\ I2CCallFailed({"WriteRegister", "SoftResetDevice"}, ERR__I2C_NACK_DATA, 1)
       => ret.err = ERR__I2C_INVALID_ADDRESS
  /\ I2CCallFailed({"ReadRegister"}, ERR__I2C_NACK_DATA, 1)
       => ret.err = ERR__I2C_NACK_DATA
  /\ \A error \in {ERR__I2C_NACK, ERR__I2C_NACK_DATA} :
       I2CCallFailed({"ReadRegister", "WriteRegister"}, error, 2) => ret.err = error
  /\ I2CCallFailed({"SoftResetDevice"}, ERR__I2C_NACK, 2) => ret.err = ERR__I2C_NACK
  /\ I2CCallFailed({"SoftResetDevice"}, ERR__I2C_NACK_DATA, 2) => ret.err = ERR_OK

\* SC16IS7XX_WriteRegister on I2C returned the NACK of the written value as
\* the interface gave it.
C29_Witness ==
  /\ I2CCallFailed({"WriteRegister"}, ERR__I2C_NACK_DATA, 2)
  /\ log[1].op = "W"
  /\ ret.err = ERR__I2C_NACK_DATA

\* C31: the direction argument means the same in SC16IS7XX_ConfigureGPIOs and
\* in SC16IS7XX_SetGPIOPinsDirection: after a successful
\* SetGPIOPinsDirection(d, 0xFF) the IODir register holds the value that a
\* successful ConfigureGPIOs(d, ...) leaves in it.
C31_SameDirectionMeaning ==
  (/\ ret.op = "SetGPIOPinsDirection" /\ ret.err = ERR_OK
   /\ ret.args.comp.HAVE_GPIO /\ ret.args.pinsChangeMask = 255)
  => dev.reg[SC16IS7XX_CHANNEL_A]["IODir"]
       = SC16IS7XX_ConfigureGPIOs(DevWorld(ret.args.comp, NoFault), ret.args.pinsDirection,
                                  5, 3).dev.reg[SC16IS7XX_CHANNEL_A]["IODir"]

\* IOControl has the modem mode bit of channel c.
ModemModeBit(c) ==
  BitAnd(dev.reg[SC16IS7XX_CHANNEL_A]["IOControl"], IOControlMask(c)) > 0

\* C32: as long as no modification of IOControl had a write of the other
\* channel between its read and its write (the calls were serialized), after
\* the configurations of channel A and of channel B for a modem IOControl holds
\* the modem mode bits of both channels; when the steps interleave a state is
\* reached where a channel configured for a modem has lost its bit.
C32_SerializedKeepsBothModemBits ==
  (/\ ~task.raced
   /\ \A c \in Channels : task.pc[c] = "idle" /\ task.config[c] = "Modem")
  => (ModemModeBit(SC16IS7XX_CHANNEL_A) /\ ModemModeBit(SC16IS7XX_CHANNEL_B))

\* Both channels were configured for a modem, the write of one falling
\* between the read and the write of the other: a modem mode bit is lost.
C32_Witness ==
  /\ task.raced
  /\ \A c \in Channels : task.pc[c] = "idle" /\ task.config[c] = "Modem"
  /\ \E c \in Channels : ~ModemModeBit(OtherChannel(c)) /\ ModemModeBit(c)

\* =========================================================================
\* Specification of the calls of a caller that goes on after a failed call
\* =========================================================================
\* Both UARTs have been initialized; the caller then initializes a UART
\* again, sets a baud rate or activates the sleep mode, whatever the call
\* before has returned.  A transport call of the baud rate setting or of the
\* sleep mode activation may fail.
InitSeq ==
  /\ \E w \in {InitBothUARTs(ResetDevice, BuffersOfSize(0))} :
       dev = w.dev /\ uart = w.uart
  /\ log = <<>>
  /\ ret = NoCall
  /\ nops = 0
  /\ clean = TRUE
  /\ lineFormat = [c \in Channels |-> <<>>]
  /\ hist = NoHist
  /\ loop = NoLoop
  /\ task = NoTask

SeqCanCall == nops < MaxOps

SeqInitUART ==
  /\ SeqCanCall
  /\ \E u \in UARTs, conf \in Configs, garbErr \in UninitializedErrors :
       \E w \in {SC16IS7XX_InitUART(World({}, 0, garbErr), u, conf)} :
         ReturnCall(w, "InitUART", u, [conf |-> conf])
  /\ UNCHANGED <<task, lineFormat, hist, loop>>

SeqSetUARTBaudRate ==
  /\ SeqCanCall
  /\ \E u \in UARTs :
       \E fail \in FailSets(SC16IS7XX_SetUARTBaudRate(World({}, 0, ERR_OK), u,
                                                      UART_EXT2_RS232config).ncall) :
         \E w \in {SC16IS7XX_SetUARTBaudRate(World(fail, 0, ERR_OK), u,
                                             UART_EXT2_RS232config)} :
           ReturnCall(w, "SetUARTBaudRate", u, [conf |-> UART_EXT2_RS232config])
  /\ UNCHANGED <<task, lineFormat, hist, loop>>

SeqActivateSleepMode ==
  /\ SeqCanCall
  /\ \E fail \in FailSets(2) :
       \E w \in {SC16IS7XX_ModifyRegister(World(fail, 0, ERR_OK), SC16IS7XX_NO_CHANNEL,
                                          RegSC16IS7XX_IER, 16, 16)} :
         ReturnCall(w, "ActivateSleepMode", UART0_EXT2, <<>>)
  /\ UNCHANGED <<task, lineFormat, hist, loop>>

NextSeq == SeqInitUART \/ SeqSetUARTBaudRate \/ SeqActivateSleepMode

SpecSeq == InitSeq /\ [][NextSeq]_vars

\* =========================================================================
\* Specification of the wait for the end of the transmission, loop by loop
\* =========================================================================
\* The caller fills the Tx ring buffer of UART 0 with TransmitData and then
\* calls SC16IS7XX_WaitEndTx.  task.pc is the position of that call: "none"
\* outside the call, "flush" at the test of its first loop, "poll" at the
\* head of its second loop, "done" after its return.  No transport call
\* fails.  The transmitter of the chip sends the characters of the Tx FIFO
\* on the line between any two steps of the driver.
InitWait ==
  /\ \E size \in 1..MaxBuf :
       \E w \in {InitBothUARTs(ResetDevice, BuffersOfSize(size))} :
         dev = w.dev /\ uart = w.uart
  /\ log = <<>>
  /\ ret = NoCall
  /\ nops = 0
  /\ clean = TRUE
  /\ lineFormat = [c \in Channels |-> <<>>]
  /\ hist = NoHist
  /\ loop = NoLoop
  /\ task = NoTask

TxBufferNotEmpty(pBuf) == pBuf.IsFull \/ pBuf.PosIn # pBuf.PosOut

WaitTransmitData ==
  /\ task.pc = "none"
  /\ nops < MaxOps
  /\ \E n \in 1..MaxBuf, garb \in UninitializedBytes :
       \E w \in {SC16IS7XX_TransmitData(World({}, garb, ERR_OK), UART0_EXT2,
                                        [i \in 1..n |-> i])} :
         dev' = w.dev /\ uart' = w.uart
  /\ nops' = nops + 1
  /\ UNCHANGED <<task, log, ret, clean, lineFormat, hist, loop>>

\* The call of SC16IS7XX_WaitEndTx.
WaitBegin ==
  /\ task.pc = "none"
  /\ task' = [pc |-> "flush"]
  /\ UNCHANGED <<dev, uart, log, ret, nops, clean, lineFormat, hist, loop>>

\* One turn of "while (pBuf->IsFull || (pBuf->PosIn != pBuf->PosOut))".
WaitFlush ==
  /\ task.pc = "flush"
  /\ IF TxBufferNotEmpty(uart[UART0_EXT2].TxBuffer)
       THEN \E garb \in UninitializedBytes :
              \E w \in {SC16IS7XX_FlushTxBufferToFIFO(World({}, garb, ERR_OK), UART0_EXT2)} :
                dev' = w.dev /\ uart' = w.uart /\ UNCHANGED task
       ELSE task' = [pc |-> "poll"] /\ UNCHANGED <<dev, uart>>
  /\ UNCHANGED <<log, ret, nops, clean, lineFormat, hist, loop>>

\* One turn of "while (true)": the read of LSR and the test of bit 6.
WaitPoll ==
  /\ task.pc = "poll"
  /\ \E w \in {SC16IS7XX_ReadRegister(World({}, 0, ERR_OK), uart[UART0_EXT2].Channel,
                                      RegSC16IS7XX_LSR)} :
       /\ dev' = w.dev
       /\ task' = IF SC16IS7XX_IS_THR_AND_TSR_EMPTY(w.val[1]) THEN [pc |-> "done"] ELSE task
  /\ UNCHANGED <<uart, log, ret, nops, clean, lineFormat, hist, loop>>

\* The transmitter of channel A sends the oldest character of its FIFO on
\* the line.
HwTransmit ==
  /\ Len(dev.txFifo[SC16IS7XX_CHANNEL_A]) > 0
  /\ dev' = [dev EXCEPT !.txFifo[SC16IS7XX_CHANNEL_A] = Tail(@)]
  /\ UNCHANGED <<task, uart, log, ret, nops, clean, lineFormat, hist, loop>>

NextWait == WaitTransmitData \/ WaitBegin \/ WaitFlush \/ WaitPoll \/ HwTransmit

SpecWait == InitWait /\ [][NextWait]_vars

\* The processor goes on executing the loops of the call and the transmitter
\* goes on sending as long as its FIFO holds a character.
SpecWaitFair ==
  /\ SpecWait
  /\ WF_vars(WaitFlush)
  /\ WF_vars(WaitPoll)
  /\ WF_vars(HwTransmit)

\* The number of bytes a step has written to THR, and the number it has
\* taken from its caller.
WrittenToTHR == Len(hist'.thr) - Len(hist.thr)
TakenFromCaller == Len(hist'.accepted) - Len(hist.accepted)

\* C33: every write of THR made by SC16IS7XX_TransmitData with a Tx ring
\* buffer sends at most the bytes the ring buffer holds (those it held
\* before the call and those the call has stored) and takes them from the
\* indices PosOut .. BufferSize - 1 of the buffer.
C33_DrainStaysInsideBuffer ==
  [][ /\ WrittenToTHR <= RingCount(uart[UART0_EXT2].TxBuffer) + TakenFromCaller
      /\ uart[UART0_EXT2].TxBuffer.PosOut + WrittenToTHR
           <= uart[UART0_EXT2].TxBuffer.BufferSize ]_vars

\* The number of bytes the write transfers of register reg have carried,
\* failed transfers included.
LogWritten(lg, reg) ==
  LET f[i \in 0..Len(lg)] ==
        IF i = 0 THEN 0
        ELSE IF lg[i].op = "W" /\ lg[i].reg = reg THEN f[i - 1] + Len(lg[i].val)
        ELSE f[i - 1]
  IN f[Len(lg)]

\* The FIFO level a call has read from register reg (0 when it has read none).
LevelRead(lg, reg) ==
  IF Len(LogBytes(lg, "R", reg)) = 0 THEN 0 ELSE LogBytes(lg, "R", reg)[1]

\* The free places of a ring buffer from PosIn on, without wrapping.
ContiguousFree(pBuf) ==
  IF pBuf.IsFull THEN 0
  ELSE IF pBuf.PosIn >= pBuf.PosOut THEN pBuf.BufferSize - pBuf.PosIn
  ELSE pBuf.PosOut - pBuf.PosIn

\* The Rx ring buffer as ReceiveData finds it when it reads the FIFO: what
\* the last call found, less the bytes it has handed to its caller first.
RxBufferAtFill ==
  __SC16IS7XX_RxBufferToDataBuff(ret.before.RxBuffer, [i \in 1..ret.args.size |-> 0],
                                 ret.args.size, 0).pBuf

\* C34: a call of SC16IS7XX_TransmitData writes at most as many bytes to THR
\* as the TXLVL it has read, in safe, burst and buffered burst mode; a call
\* of SC16IS7XX_ReceiveData reads at most as many bytes from RHR as the RXLVL
\* it has read and, through an Rx ring buffer, at most as many as the buffer
\* has free places without wrapping.
C34_TransfersWithinFifoLevels ==
  /\ ret.op = "TransmitData" => LogWritten(log, "THR") <= LevelRead(log, "TXLVL")
  /\ ret.op = "ReceiveData" =>
       /\ Len(LogBytes(log, "R", "RHR")) <= LevelRead(log, "RXLVL")
       /\ (~BufferIsNull(ret.before.RxBuffer)
             /\ BitAnd(ret.before.DriverConfig, SC16IS7XX_DRIVER_SAFE_RX) = 0)
            => Len(LogBytes(log, "R", "RHR")) <= ContiguousFree(RxBufferAtFill)

\* A buffered ReceiveData that finds more characters in the FIFO than the
\* buffer can take without wrapping, and reads as many as the buffer can take.
C34_Witness ==
  /\ ret.op = "ReceiveData"
  /\ ~BufferIsNull(ret.before.RxBuffer)
  /\ LevelRead(log, "RXLVL") > ContiguousFree(RxBufferAtFill)
  /\ ContiguousFree(RxBufferAtFill) > 0
  /\ Len(LogBytes(log, "R", "RHR")) = ContiguousFree(RxBufferAtFill)

\* How many halves of a scoped register-set switch the step of transport
\* call i has made before that call: 0 before SetRegisterAccess, 1 inside the
\* scoped access, 2 after the return.
AccessPhase(lg, i) ==
  Cardinality({j \in 1..(i - 1) : /\ lg[j].step = lg[i].step
                                  /\ lg[j].op \in {"SetAccess", "ReturnAccess"}})

\* The register the source names in transport call i of InitUART.  Addresses
\* 0 to 7 are shared by several registers: the divisor latches are named in
\* the baud rate step (writes), EFR and the Xon/Xoff words inside the scoped
\* accesses of the enhanced functions, configuration and control flow steps,
\* TCR by the control flow step before its scoped access, TLR by the FIFO
\* step.
TargetedRegister(lg, i) ==
  LET e == lg[i]
      scoped == /\ AccessPhase(lg, i) = 1
                /\ e.step \in {"EnableEnhancedFunctions", "DisableControlFlow",
                               "SetUARTConfiguration", "SetControlFlow"}
  IN CASE e.addr = RegSC16IS7XX_LCR -> "LCR"
       [] e.addr = 0 -> IF e.step = "SetUARTBaudRate" /\ e.op = "W" THEN "DLL"
                        ELSE IF e.op = "R" THEN "RHR" ELSE "THR"
       [] e.addr = 1 -> IF e.step = "SetUARTBaudRate" /\ e.op = "W" THEN "DLH" ELSE "IER"
       [] e.addr = 2 -> IF scoped THEN "EFR" ELSE IF e.op = "R" THEN "IIR" ELSE "FCR"
       [] e.addr = 4 -> IF scoped THEN "XON1" ELSE "MCR"
       [] e.addr = 5 -> IF scoped THEN "XON2" ELSE "LSR"
       [] e.addr = 6 -> IF scoped THEN "XOFF1"
                        ELSE IF e.step = "SetControlFlow" THEN "TCR" ELSE "MSR"
       [] e.addr = 7 -> IF scoped THEN "XOFF2"
                        ELSE IF e.step = "ConfigureFIFOs" THEN "TLR" ELSE "SPR"
       [] e.addr = RegSC16IS7XX_TXLVL -> "TXLVL"
       [] e.addr = RegSC16IS7XX_RXLVL -> "RXLVL"
       [] e.addr = RegSC16IS7XX_IOControl -> "IOControl"
       [] e.addr = RegSC16IS7XX_EFCR -> "EFCR"
       [] OTHER -> "Reserved"

\* The register set the chip has selected when transport call i is made.
SelectsEnhancedSet(e) == e.lcr = SC16IS7XX_LCR_VALUE_SET_ENHANCED_FEATURE_REGISTER
SelectsSpecialSet(e) == Bit(e.lcr, 7) = 1 /\ ~SelectsEnhancedSet(e)
SelectsGeneralSet(e) == Bit(e.lcr, 7) = 0

\* Transport call i of the log reaches the register the source names, with
\* the register set that register belongs to selected.
LandsInTargetedBank(lg, i) ==
  LET e == lg[i]
      target == TargetedRegister(lg, i)
  IN /\ e.reg = target
     /\ target \in {"TCR", "TLR"} =>
          Bit(e.efr, 4) = 1 /\ Bit(e.mcr, 2) = 1 /\ ~SelectsEnhancedSet(e)
     /\ target \in {"EFR", "XON1", "XON2", "XOFF1", "XOFF2"} => SelectsEnhancedSet(e)
     /\ target \in {"DLL", "DLH"} => SelectsSpecialSet(e)
     /\ target \in {"IER", "FCR", "MCR", "EFCR", "IOControl", "LSR"} => SelectsGeneralSet(e)

InitUARTWithoutFailure ==
  ret.op = "InitUART" /\ \A i \in 1..Len(log) : log[i].ok

\* C35: in an InitUART without transport failure every register access lands
\* in the register bank it targets: TCR and TLR are written with EFR[4] = 1,
\* MCR[2] = 1 and LCR # 0xBF, EFR and the Xon/Xoff words are accessed with
\* LCR = 0xBF, DLL and DLH are written with LCR[7] = 1 and LCR # 0xBF, the
\* general registers are accessed with LCR[7] = 0.
C35_AccessesLandInTargetedBank ==
  InitUARTWithoutFailure =>
    \A i \in 1..Len(log) : log[i].op \in {"R", "W"} => LandsInTargetedBank(log, i)

\* C36: the baud rate step of InitUART never fails with
\* ERR__NOT_IN_SLEEP_MODE, on channel A and on channel B, whatever calls have
\* preceded the initialization.
C36_InitUARTNeverFindsSleepMode ==
  ret.op = "InitUART" => ret.err # ERR__NOT_IN_SLEEP_MODE

\* C37: when a buffered burst SC16IS7XX_TransmitData returns a transport
\* error that is not "busy", no accepted byte is lost: the Tx ring buffer
\* holds what it held before the call followed by the bytes the call has
\* counted in *actuallySent, less the bytes the call has written to THR.
C37_FailedTransmitKeepsBytes ==
  (/\ ret.op = "TransmitData"
   /\ ret.err = ERR__SPI_TIMEOUT
   /\ ~BufferIsNull(ret.before.TxBuffer)
   /\ BitAnd(ret.before.DriverConfig, SC16IS7XX_DRIVER_SAFE_TX) = 0) =>
    LogBytes(log, "W", "THR") \o RingContent(uart[ret.u].TxBuffer)
      = RingContent(ret.before.TxBuffer) \o [i \in 1..ret.cnt |-> 48 + i]

\* A call of the control flow configurator with a hardware descriptor that
\* has returned ERR_OK without a failed transport call.
HardFlowConfigured ==
  /\ ret.op = "SetControlFlowConfiguration"
  /\ ret.err = ERR_OK
  /\ Len(ret.args.pHardFlow) > 0
  /\ \A i \in 1..Len(log) : log[i].ok

\* C39: after the control flow configurator has succeeded for a hardware
\* descriptor, TCR holds HoldAt in bits 3..0 and ResumeAt in bits 7..4; EFR
\* has the enhanced functions bit set, no software flow control, the RTS and
\* CTS bits set exactly for the pins under automatic control and the special
\* character detection set exactly when a special character or the address
\* character is in use; the Xon Any bit of MCR is clear.
C39_HardwareFlowRegisters ==
  HardFlowConfigured =>
    LET r == dev.reg[uart[ret.u].Channel]
        pHardFlow == ret.args.pHardFlow[1]
    IN /\ pHardFlow.HoldAt > pHardFlow.ResumeAt
       /\ r["TCR"] % 16 = pHardFlow.HoldAt
       /\ r["TCR"] \div 16 = pHardFlow.ResumeAt
       /\ Bit(r["EFR"], 4) = 1
       /\ r["EFR"] % 16 = 0
       /\ (Bit(r["EFR"], 6) = 1) <=> (pHardFlow.RTSpinControl = "AUTOMATIC")
       /\ (Bit(r["EFR"], 7) = 1) <=> (pHardFlow.CTSpinControl = "AUTOMATIC")
       /\ (Bit(r["EFR"], 5) = 1) <=>
            (Len(ret.args.pSpecialChar) > 0 \/ ret.args.useAddressChar)
       /\ Bit(r["MCR"], 5) = 0

\* Hardware flow control with the RTS pin under manual control and a special
\* character, programmed on a channel that had software flow control with
\* Xon Any.
C39_Witness ==
  /\ HardFlowConfigured
  /\ ret.args.pHardFlow[1].RTSpinControl = "MANUAL"
  /\ Len(ret.args.pSpecialChar) > 0
  /\ Bit(dev.reg[uart[ret.u].Channel]["EFR"], 6) = 0
  /\ dev.reg[uart[ret.u].Channel]["TCR"] = 76
  /\ \E i \in 1..Len(log) :
       log[i].op = "R" /\ log[i].reg = "MCR" /\ log[i].ok /\ Bit(log[i].val[1], 5) = 1

\* C38: when no transport call fails and the transmitter goes on sending,
\* every call of SC16IS7XX_WaitEndTx returns: its first loop empties the Tx
\* ring buffer and its second loop reads LSR with THR and TSR empty.
C38_WaitEndTxTerminates == (task.pc = "flush") ~> (task.pc = "done")
=============================================================================
